---- MODULE Spec2Model ----
(***************************************************************************)
(* A model of the digital-janitor document pipeline: the validator         *)
(* (core/validator.py), the safe file move (utils/file_ops.py) and the      *)
(* LangGraph workflow of run_graph_once.py.                                 *)
(*                                                                         *)
(* A Python str is a sequence of one-character strings; a character that    *)
(* is not ASCII is written by its code point ("u53D1").  The file system    *)
(* is a function from path strings to entries.                              *)
(***************************************************************************)
EXTENDS Integers, Sequences, FiniteSets, TLC

VARIABLES
    platform,   \* "posix" or "windows": the pathlib flavour Path() resolves to
    vphase,     \* validator run: "built" -> "validated"
    vplan,      \* validator run: the RenamePlan, as validate_plan left it
    vin,        \* validator run: the RenamePlan as it was built
    fs,         \* the file system: path -> entry
    fs0,        \* the file system when the operation in progress (or last finished) started
    mv,         \* the last safe_move_file call: its arguments, the file system before, its result
    calls,      \* number of safe_move_file calls made directly
    pc,         \* workflow: the node about to run ("idle" between runs)
    st,         \* workflow: the JanitorState dict
    pendingDir, \* workflow: the artifacts under pending/
    records,    \* workflow: the records process_file has returned
    runs,       \* workflow: number of process_file calls started
    learned,    \* workflow: the learned_folder of node_build_plan, as get_preference returned it,
                \* and whether its query went through
    ex,         \* extraction: the last extract_text_preview_enhanced call (its file, what the
                \* readers and engines did, its result or the exception that left it)
    cache,      \* extraction: the row of the OCR cache under the file's hash
    qs,         \* scoring: the last calculate_quality_score call, its arguments and its result
    oc,         \* extraction: the last should_use_ocr call, its arguments and its result
    ui,         \* approval UI: the last approve_file call of app.py, its item and its result
    file_queue, \* watcher: the Queue of paths, and its count of unfinished tasks
    stop_event, \* watcher: the threading.Event that stops the worker
    worker,     \* watcher: each worker thread's position and the locals of its item
    main,       \* watcher: the position of the main thread
    puts,       \* watcher: how many paths the handler has put
    handed,     \* watcher: the paths handed to process_file, in that order
    fate,       \* watcher: what has become of each path put
    batch       \* batch run: the position of main of run_graph_once, its files and records

vars == <<platform, vphase, vplan, vin, fs, fs0, mv, calls, pc, st, pendingDir, records, runs, learned, ex, cache,
          qs, oc, ui, file_queue, stop_event, worker, main, puts, handed, fate, batch>>

\* the variables of the pipeline: validation, move, workflow, extraction
pipeline == <<platform, vphase, vplan, vin, fs, fs0, mv, calls, pc, st, pendingDir, records, runs, learned, ex, cache>>

\* the variables of what runs beside the pipeline
offstage == <<qs, oc, ui, file_queue, stop_event, worker, main, puts, handed, fate, batch>>

\* the variables of the watcher
watcher == <<file_queue, stop_event, worker, main, puts, handed, fate>>

None == "None"

\* no extract_text_preview_enhanced call has been made
NoExtraction == [called |-> FALSE]

\* ocr_cache holds no row under the file's hash
NoCache == <<>>

\* no calculate_quality_score call has been made
NoScore == [called |-> FALSE]

\* no should_use_ocr call has been made
NoCheck == [called |-> FALSE]

\* no approve_file call has been made
NoApproval == [called |-> FALSE]

\* the watcher has not been started
WatcherOff ==
    /\ file_queue = <<>> /\ stop_event = FALSE /\ worker = <<>> /\ main = "off"
    /\ puts = 0 /\ handed = <<>> /\ fate = <<>>

\* main of run_graph_once has not been started
NoBatch == [pc |-> "off"]

\* nothing runs beside the pipeline
OffstageIdle == qs = NoScore /\ oc = NoCheck /\ ui = NoApproval /\ WatcherOff /\ batch = NoBatch

Platforms == {"posix", "windows"}

-----------------------------------------------------------------------------
(* Python str operations *)

S1(c) == <<c>>

LowerLetters ==
    << "a","b","c","d","e","f","g","h","i","j","k","l","m",
       "n","o","p","q","r","s","t","u","v","w","x","y","z" >>

UpperLetters ==
    << "A","B","C","D","E","F","G","H","I","J","K","L","M",
       "N","O","P","Q","R","S","T","U","V","W","X","Y","Z" >>

Letters == {LowerLetters[i] : i \in 1..26} \cup {UpperLetters[i] : i \in 1..26}

Digits == <<"0","1","2","3","4","5","6","7","8","9">>

DigitSet == {Digits[i] : i \in 1..10}

\* str.strip() with no argument removes whitespace
Whitespace == {" ", "\t"}

upper_char(c) ==
    IF \E i \in 1..26 : LowerLetters[i] = c
    THEN UpperLetters[CHOOSE i \in 1..26 : LowerLetters[i] = c]
    ELSE c

lower_char(c) ==
    IF \E i \in 1..26 : UpperLetters[i] = c
    THEN LowerLetters[CHOOSE i \in 1..26 : UpperLetters[i] = c]
    ELSE c

upper(s) == [i \in 1..Len(s) |-> upper_char(s[i])]

lower(s) == [i \in 1..Len(s) |-> lower_char(s[i])]

startswith(s, p) == Len(p) <= Len(s) /\ SubSeq(s, 1, Len(p)) = p

endswith(s, p) == Len(p) <= Len(s) /\ SubSeq(s, Len(s) - Len(p) + 1, Len(s)) = p

Contains(s, c) == \E i \in 1..Len(s) : s[i] = c

\* str.lstrip(chars)
lstrip(s, cs) ==
    LET i == CHOOSE i \in 1..Len(s)+1 :
                /\ \A j \in 1..i-1 : s[j] \in cs
                /\ (i = Len(s) + 1 \/ s[i] \notin cs)
    IN  SubSeq(s, i, Len(s))

\* str.rstrip(chars)
rstrip(s, cs) ==
    LET i == CHOOSE i \in 0..Len(s) :
                /\ \A j \in i+1..Len(s) : s[j] \in cs
                /\ (i = 0 \/ s[i] \notin cs)
    IN  SubSeq(s, 1, i)

\* str.strip(chars)
strip(s, cs) == rstrip(lstrip(s, cs), cs)

\* re.sub('[cs]', r, s) and str.replace for one-character patterns
replace_chars(s, cs, r) == [i \in 1..Len(s) |-> IF s[i] \in cs THEN r ELSE s[i]]

\* str.rfind(c): the last index of c (1-based), 0 when absent
rfind(s, c) ==
    IF Contains(s, c) THEN CHOOSE i \in 1..Len(s) : s[i] = c /\ \A j \in i+1..Len(s) : s[j] # c
    ELSE 0

\* str.find(c, from): the first index >= from of c (1-based), 0 when absent
find_from(s, c, from) ==
    IF \E i \in from..Len(s) : s[i] = c
    THEN CHOOSE i \in from..Len(s) : s[i] = c /\ \A j \in from..i-1 : s[j] # c
    ELSE 0

RECURSIVE split(_, _)
\* str.split(sep) for a set of one-character separators
split(s, seps) ==
    IF \A i \in 1..Len(s) : s[i] \notin seps THEN <<s>>
    ELSE LET i == CHOOSE i \in 1..Len(s) : s[i] \in seps /\ \A j \in 1..i-1 : s[j] \notin seps
         IN  <<SubSeq(s, 1, i-1)>> \o split(SubSeq(s, i+1, Len(s)), seps)

RECURSIVE str_int(_)
\* str(i) for i >= 0
str_int(i) ==
    IF i < 10 THEN S1(Digits[i + 1])
    ELSE str_int(i \div 10) \o S1(Digits[(i % 10) + 1])

RECURSIVE AllStrings(_, _)
\* every string over the alphabet of length <= n
AllStrings(alphabet, n) ==
    IF n = 0 THEN {<<>>}
    ELSE LET shorter == AllStrings(alphabet, n - 1)
         IN  shorter \cup {Append(s, c) : s \in shorter, c \in alphabet}

-----------------------------------------------------------------------------
(* pathlib: PurePosixPath / PureWindowsPath (CPython 3.11) *)

BSL == "\\"

SEP == "/"

\* the separators the flavour splits on
PathSeps(pf) == IF pf = "windows" THEN {SEP, BSL} ELSE {SEP}

IsComponent(x) == x # <<>> /\ x # <<".">>

\* the components after the anchor: empty and "." components are dropped
Components(rest, pf) == SelectSeq(split(rest, PathSeps(pf)), IsComponent)

\* _WindowsFlavour.splitroot: whether the string names a UNC share (\\server\share)
IsUNC(s) ==
    LET p == replace_chars(s, {SEP}, BSL)
        index == find_from(p, BSL, 3)
        index2 == find_from(p, BSL, index + 1)
    IN  /\ Len(p) >= 2 /\ p[1] = BSL /\ p[2] = BSL
        /\ (Len(p) < 3 \/ p[3] # BSL)
        /\ index # 0
        /\ index2 # index + 1

\* the end of the UNC drive (\\server\share) in the string
UNCDriveEnd(s) ==
    LET p == replace_chars(s, {SEP}, BSL)
        index == find_from(p, BSL, 3)
        index2 == find_from(p, BSL, index + 1)
    IN  IF index2 = 0 THEN Len(p) ELSE index2 - 1

\* Path(s).parts: the anchor (when there is one) followed by the components
Parts(s, pf) ==
    IF pf = "windows"
    THEN IF IsUNC(s)
         THEN <<replace_chars(SubSeq(s, 1, UNCDriveEnd(s)), {SEP}, BSL) \o S1(BSL)>>
                  \o Components(SubSeq(s, UNCDriveEnd(s) + 1, Len(s)), pf)
         ELSE IF Len(s) >= 1 /\ s[1] \in {SEP, BSL}
         THEN <<S1(BSL)>> \o Components(s, pf)
         ELSE Components(s, pf)
    ELSE IF Len(s) >= 1 /\ s[1] = SEP
         THEN <<IF Len(s) >= 2 /\ s[2] = SEP /\ (Len(s) < 3 \/ s[3] # SEP)
                THEN <<SEP, SEP>> ELSE S1(SEP)>> \o Components(s, pf)
         ELSE Components(s, pf)

\* Path(s).is_absolute(): posix needs a root, windows a drive and a root
is_absolute(s, pf) ==
    IF pf = "windows" THEN IsUNC(s)
    ELSE Len(s) >= 1 /\ s[1] = SEP

\* Path(name).suffix for a bare file name
suffix(name) ==
    LET i == rfind(name, ".")
    IN  IF 1 < i /\ i < Len(name) THEN SubSeq(name, i, Len(name)) ELSE <<>>

\* Path(name).stem for a bare file name
stem(name) ==
    LET i == rfind(name, ".")
    IN  IF 1 < i /\ i < Len(name) THEN SubSeq(name, 1, i - 1) ELSE name

-----------------------------------------------------------------------------
(* core/validator.py *)

\* INVALID_WIN_CHARS = r'<>:"/\\|?*'
INVALID_WIN_CHARS == {"<", ">", ":", "\"", "/", "\\", "|", "?", "*"}

MaxNameLen == 255

\* a RenamePlan (core/schemas.py); validation_msg is the list of the messages that
\* validate_plan joins with "; ", each message <<kind, detail>>
RenamePlan(category, new_name, dest_dir, is_valid, validation_msg) ==
    [category |-> category, new_name |-> new_name, dest_dir |-> dest_dir,
     is_valid |-> is_valid, validation_msg |-> validation_msg]

\* sanitize_filename without the replacement of the illegal characters
sanitize_filename_no_replace(filename) ==
    LET cleaned2 == strip(filename, Whitespace)
        cleaned3 == strip(cleaned2, {"."})
    IN  IF cleaned3 = <<>> THEN <<"u","n","n","a","m","e","d">> ELSE cleaned3

sanitize_filename(filename) ==
    LET cleaned1 == replace_chars(filename, INVALID_WIN_CHARS, "_")
        cleaned2 == strip(cleaned1, Whitespace)
        cleaned3 == strip(cleaned2, {"."})
    IN  IF cleaned3 = <<>> THEN <<"u","n","n","a","m","e","d">> ELSE cleaned3

reserved_names ==
    { <<"C","O","N">>, <<"P","R","N">>, <<"A","U","X">>, <<"N","U","L">> }
    \cup { <<"C","O","M">> \o S1(Digits[i]) : i \in 2..10 }
    \cup { <<"L","P","T">> \o S1(Digits[i]) : i \in 2..10 }

\* the characters step 4 of is_safe_path looks for
IllegalPathChars == <<"<", ">", "\"", "|", "?", "*">>

\* is_safe_path without step 1's drive-letter check
is_safe_path_no_drive_check(path_str, pf) ==
    LET s == strip(path_str, Whitespace)
        parts == Parts(s, pf)
    IN  IF startswith(s, <<BSL, BSL>>) \/ startswith(s, <<SEP, SEP>>) THEN <<FALSE, "unc_path">>
        ELSE IF \E i \in 1..Len(parts) : parts[i] = <<".", ".">> THEN <<FALSE, "traversal">>
        ELSE IF is_absolute(s, pf) THEN <<FALSE, "absolute">>
        ELSE IF \E i \in 1..Len(IllegalPathChars) : Contains(s, IllegalPathChars[i])
             THEN <<FALSE, "illegal_char">>
        ELSE IF startswith(s, S1(SEP)) \/ startswith(s, S1(BSL)) THEN <<FALSE, "dangerous_prefix">>
        ELSE <<TRUE, "">>

\* is_safe_path without step 2's search for a '..' part
is_safe_path_no_traversal_check(path_str, pf) ==
    LET s == strip(path_str, Whitespace)
    IN  IF Len(s) >= 2 /\ s[1] \in Letters /\ s[2] = ":" THEN <<FALSE, "drive_letter">>
        ELSE IF startswith(s, <<BSL, BSL>>) \/ startswith(s, <<SEP, SEP>>) THEN <<FALSE, "unc_path">>
        ELSE IF is_absolute(s, pf) THEN <<FALSE, "absolute">>
        ELSE IF \E i \in 1..Len(IllegalPathChars) : Contains(s, IllegalPathChars[i])
             THEN <<FALSE, "illegal_char">>
        ELSE IF startswith(s, S1(SEP)) \/ startswith(s, S1(BSL)) THEN <<FALSE, "dangerous_prefix">>
        ELSE <<TRUE, "">>

\* is_safe_path: <<is_safe, error_message>>; the message is named by its kind
is_safe_path(path_str, pf) ==
    LET s == strip(path_str, Whitespace)
        parts == Parts(s, pf)
    IN  IF Len(s) >= 2 /\ s[1] \in Letters /\ s[2] = ":" THEN <<FALSE, "drive_letter">>
        ELSE IF startswith(s, <<BSL, BSL>>) \/ startswith(s, <<SEP, SEP>>) THEN <<FALSE, "unc_path">>
        ELSE IF \E i \in 1..Len(parts) : parts[i] = <<".", ".">> THEN <<FALSE, "traversal">>
        ELSE IF is_absolute(s, pf) THEN <<FALSE, "absolute">>
        ELSE IF \E i \in 1..Len(IllegalPathChars) : Contains(s, IllegalPathChars[i])
             THEN <<FALSE, "illegal_char">>
        ELSE IF startswith(s, S1(SEP)) \/ startswith(s, S1(BSL)) THEN <<FALSE, "dangerous_prefix">>
        ELSE <<TRUE, "">>

\* validate_plan: the plan with new_name cleaned and is_valid, validation_msg set
validate_plan(plan, pf) ==
    LET original_name == plan.new_name
        cleaned_name == sanitize_filename(original_name)
        e1 == IF cleaned_name # original_name /\ cleaned_name = <<>>
              THEN << <<"empty_name", "">> >> ELSE <<>>
        e2 == IF Len(cleaned_name) > MaxNameLen THEN << <<"name_too_long", "">> >> ELSE <<>>
        e3 == IF upper(stem(cleaned_name)) \in reserved_names
              THEN << <<"reserved_name", "">> >> ELSE <<>>
        safe == is_safe_path(plan.dest_dir, pf)
        e4 == IF ~safe[1] THEN << <<"unsafe_path", safe[2]>> >> ELSE <<>>
        errors == e1 \o e2 \o e3 \o e4
    IN  [plan EXCEPT !.new_name = cleaned_name,
                     !.is_valid = (errors = <<>>),
                     !.validation_msg = IF errors = <<>> THEN << <<"ok", "">> >> ELSE errors]

-----------------------------------------------------------------------------
(* The file system.  A path is the sequence of its parts (Path.parts); the   *)
(* file system maps the paths that exist to what is there.                   *)

File(content) == [kind |-> "file", content |-> content]

Dir == [kind |-> "dir"]

RECURSIVE Resolve(_)
\* the operating system's view of a path: "x/.." names the parent of x
Resolve(p) ==
    IF Len(p) = 0 THEN <<>>
    ELSE LET head == Resolve(SubSeq(p, 1, Len(p) - 1))
             last == p[Len(p)]
         IN  IF last = <<".", ".">>
             THEN (IF Len(head) = 0 THEN <<>> ELSE SubSeq(head, 1, Len(head) - 1))
             ELSE Append(head, last)

\* Path.exists()
exists(f, p) == Resolve(p) \in DOMAIN f

\* Path.is_file()
is_file(f, p) == exists(f, p) /\ f[Resolve(p)].kind = "file"

\* Path.parent
parent(p) == IF Len(p) = 0 THEN p ELSE SubSeq(p, 1, Len(p) - 1)

\* Path.name
name(p) == IF Len(p) = 0 THEN <<>> ELSE p[Len(p)]

\* Path.with_name / parent / new_name
with_name(p, n) == Append(parent(p), n)

\* whether the string starts a new anchor when joined (it has a root)
HasRoot(s, pf) == Len(s) >= 1 /\ s[1] \in PathSeps(pf)

\* base / s for a path base and a str s
PathJoin(base, s, pf) == IF HasRoot(s, pf) THEN Parts(s, pf) ELSE base \o Parts(s, pf)

\* the proper ancestors of a path, nearest last
Ancestors(p) == {SubSeq(p, 1, k) : k \in 1..(Len(p) - 1)}

\* Path.mkdir(parents=True, exist_ok=True): the file system after it; it raises
\* when the path or one of its ancestors is a regular file or the system refuses
mkdir_parents(f, p, outcome) ==
    LET rp == Resolve(p)
        needed == {q \in Ancestors(rp) \cup {rp} : q \notin DOMAIN f}
    IN  IF \E q \in Ancestors(rp) \cup {rp} : q \in DOMAIN f /\ f[q].kind # "dir"
        THEN [fs |-> f, raised |-> TRUE]
        ELSE IF needed = {} THEN [fs |-> f, raised |-> FALSE]
        ELSE IF outcome = "error" THEN [fs |-> f, raised |-> TRUE]
        ELSE [fs |-> [q \in DOMAIN f \cup needed |-> IF q \in DOMAIN f THEN f[q] ELSE Dir],
              raised |-> FALSE]

\* shutil.move that reports nothing when the source could not be removed
shutil_move_silent(f, src, dst, outcome) ==
    LET rs == Resolve(src)
        rd == Resolve(dst)
    IN  IF parent(rd) \notin DOMAIN f \/ outcome = "error" THEN [fs |-> f, raised |-> TRUE]
        ELSE IF outcome = "copied"
        THEN [fs |-> [q \in DOMAIN f \cup {rd} |-> IF q = rd THEN f[rs] ELSE f[q]],
              raised |-> FALSE]
        ELSE [fs |-> [q \in (DOMAIN f \ {rs}) \cup {rd} |-> IF q = rd THEN f[rs] ELSE f[q]],
              raised |-> FALSE]

\* shutil.move(src, dst) of a regular file onto a path that does not exist:
\* a rename ("ok"), a failure that changes nothing ("error"), or - across
\* devices - a copy whose source could not be removed ("copied")
shutil_move(f, src, dst, outcome) ==
    LET rs == Resolve(src)
        rd == Resolve(dst)
    IN  IF parent(rd) \notin DOMAIN f \/ outcome = "error" THEN [fs |-> f, raised |-> TRUE]
        ELSE IF outcome = "copied"
        THEN [fs |-> [q \in DOMAIN f \cup {rd} |-> IF q = rd THEN f[rs] ELSE f[q]],
              raised |-> TRUE]
        ELSE [fs |-> [q \in (DOMAIN f \ {rs}) \cup {rd} |-> IF q = rd THEN f[rs] ELSE f[q]],
              raised |-> FALSE]

-----------------------------------------------------------------------------
(* utils/file_ops.py: resolve_collision, safe_move_file *)

\* resolve_collision(destination, max_attempts: int = 100)
max_attempts == 100

\* f"{stem}_{i}{suffix}" next to the destination
candidate(destination, i) ==
    with_name(destination,
              stem(name(destination)) \o <<"_">> \o str_int(i) \o suffix(name(destination)))

\* resolve_collision that never looks for a free name
resolve_collision_overwrites(f, destination) ==
    [path |-> destination, raised |-> FALSE, probes |-> 0]

\* the loop "for i in range(1, max_attempts + 1)" from i on: the first i whose
\* candidate does not exist, 0 when the range is used up
probe(f, destination, i, last) ==
    CHOOSE first \in
        { IF free = {} THEN 0 ELSE CHOOSE k \in free : \A j \in free : k <= j
          : free \in { {k \in i..last : ~exists(g, candidate(d, k))}
                       : g \in {f}, d \in {destination} } } : TRUE

\* the attempt bound one too large: range(1, max_attempts + 2)
max_attempts_off_by_one == max_attempts + 1

\* the number of candidates resolve_collision may test
attempt_bound == max_attempts

\* resolve_collision: the destination or the first free candidate; RuntimeError
\* when max_attempts candidates all exist
\* probes counts the candidates whose existence the loop tested
resolve_collision(f, destination) ==
    IF ~exists(f, destination) THEN [path |-> destination, raised |-> FALSE, probes |-> 0]
    ELSE LET first == probe(f, destination, 1, attempt_bound)
         IN  IF first # 0
             THEN [path |-> candidate(destination, first), raised |-> FALSE, probes |-> first]
             ELSE [path |-> destination, raised |-> TRUE, probes |-> attempt_bound]

\* what the operating system may do to the calls of one safe_move_file; the
\* first call that fails ends safe_move_file, so one failure per run is enough
IOOutcomes ==
    { io \in [stat : {"ok", "error"}, mkdir : {"ok", "error"}, move : {"ok", "error", "copied"}] :
        Cardinality({k \in {"stat", "mkdir", "move"} : io[k] # "ok"}) <= 1 }

MoveResult(status, src, original_dst, dst, conflict_resolved, error) ==
    [status |-> status, src |-> src, original_dst |-> original_dst, dst |-> dst,
     conflict_resolved |-> conflict_resolved, error |-> error]

\* the source check without the is_file test
source_check_exists_only(f, src) == IF ~exists(f, src) THEN "source_missing" ELSE None

\* step 1 of safe_move_file: the error the source check reports, None when it passes
source_check(f, src) ==
    IF ~exists(f, src) THEN "source_missing"
    ELSE IF ~is_file(f, src) THEN "source_not_a_file"
    ELSE None

\* safe_move_file(src, dst) with create_dirs and resolve_conflicts at their
\* defaults (no caller passes them): the result dict, the file system after, and
\* the number of candidates the collision loop tested
safe_move_file(f, src, dst, io) ==
    LET failed(d, cr, e) ==
            [result |-> MoveResult("failed", src, dst, d, cr, e), fs |-> f, probes |-> 0]
        resolved == resolve_collision(f, dst)
        final_dst == resolved.path
        cr == final_dst # dst
        made == mkdir_parents(f, parent(final_dst), io.mkdir)
        moved == shutil_move(made.fs, src, final_dst, io.move)
    IN  IF io.stat = "error" THEN failed(dst, FALSE, "unknown_error")
        ELSE IF source_check(f, src) # None THEN failed(dst, FALSE, source_check(f, src))
        ELSE IF resolved.raised
        THEN [result |-> MoveResult("failed", src, dst, dst, FALSE, "collision_unresolved"),
              fs |-> f, probes |-> resolved.probes]
        ELSE IF made.raised
        THEN [result |-> MoveResult("failed", src, dst, final_dst, cr, "mkdir_failed"),
              fs |-> f, probes |-> resolved.probes]
        ELSE IF moved.raised
        THEN [result |-> MoveResult("failed", src, dst, final_dst, cr, "move_failed"),
              fs |-> moved.fs, probes |-> resolved.probes]
        ELSE [result |-> MoveResult("success", src, dst, final_dst, cr, None),
              fs |-> moved.fs, probes |-> resolved.probes]

-----------------------------------------------------------------------------
(* run_graph_once.py: the three-tier routing helpers *)

CN_invoice == <<"u53D1", "u7968">>

CN_receipt == <<"u7968", "u636E">>

CN_bank_statement == <<"u94F6", "u884C", "u8D26", "u5355">>

CN_contract == <<"u5408", "u540C">>

CN_paper == <<"u8BBA", "u6587">>

CN_image == <<"u56FE", "u7247">>

CN_presentation == <<"u6F14", "u793A", "u6587", "u7A3F">>

CN_default == <<"u5176", "u4ED6">>

CN_unknown_year == <<"u672A", "u77E5", "u5E74", "u4EFD">>

CN_unknown_month == <<"u672A", "u77E5", "u6708", "u4EFD">>

\* CAT_CN_MAP.get(category, CAT_CN_MAP["default"])
CAT_CN_MAP(category) ==
    CASE category = "invoice" -> CN_invoice
      [] category = "receipt" -> CN_receipt
      [] category = "bank_statement" -> CN_bank_statement
      [] category = "contract" -> CN_contract
      [] category = "paper" -> CN_paper
      [] category = "image" -> CN_image
      [] category = "presentation" -> CN_presentation
      [] OTHER -> CN_default

INVALID_VENDOR_VALUES ==
    { <<>>, <<"u","n","k","n","o","w","n">>, <<"n","/","a">>, <<"n","o","n","e">>, <<"u65E0">>, <<"u672A", "u77E5">>, <<"n","u","l","l">> }

\* the characters sanitize_path_component replaces: [/\\:*?"<>|]
PathIllegalChars == {"/", "\\", ":", "*", "?", "\"", "<", ">", "|"}

sanitize_path_component(value) ==
    IF value = <<>> THEN <<>>
    ELSE rstrip(strip(replace_chars(value, PathIllegalChars, "_"), Whitespace), {"."})

\* is_valid_vendor; a missing vendor (None) is the empty string here
is_valid_vendor(vendor) == lower(strip(vendor, Whitespace)) \notin INVALID_VENDOR_VALUES

IsDigit(s, i) == i <= Len(s) /\ s[i] \in DigitSet

\* re.match(r"(?P<y>20\d{2})[-./]?(?P<m>\d{2})?", date_str): <<matched, y, m>>,
\* m empty when the group did not take part
date_match(date_str) ==
    LET hasY == /\ Len(date_str) >= 4 /\ date_str[1] = "2" /\ date_str[2] = "0"
                /\ IsDigit(date_str, 3) /\ IsDigit(date_str, 4)
        k == IF Len(date_str) >= 5 /\ date_str[5] \in {"-", ".", "/"} THEN 6 ELSE 5
    IN  IF ~hasY THEN <<FALSE, <<>>, <<>>>>
        ELSE IF IsDigit(date_str, k) /\ IsDigit(date_str, k + 1)
        THEN <<TRUE, SubSeq(date_str, 1, 4), SubSeq(date_str, k, k + 1)>>
        ELSE <<TRUE, SubSeq(date_str, 1, 4), <<>>>>

\* build_date_partition_path without the default month "01"
build_date_partition_path_no_default_month(category, date_str) ==
    LET m == date_match(date_str)
        year == IF date_str # <<>> /\ m[1] THEN m[2] ELSE CN_unknown_year
        month == IF date_str # <<>> /\ m[1] /\ m[3] # <<>> THEN m[3] ELSE CN_unknown_month
    IN  CAT_CN_MAP(category) \o S1(SEP) \o year \o S1(SEP) \o month

\* build_date_partition_path; a missing date (None) is the empty string here
build_date_partition_path(category, date_str) ==
    LET m == date_match(date_str)
        year == IF date_str # <<>> /\ m[1] THEN m[2] ELSE CN_unknown_year
        month == IF date_str # <<>> /\ m[1]
                 THEN (IF m[3] # <<>> THEN m[3] ELSE <<"0", "1">>)
                 ELSE CN_unknown_month
    IN  CAT_CN_MAP(category) \o S1(SEP) \o year \o S1(SEP) \o month

\* build_semantic_path that leaves a document without vendor in the category folder
build_semantic_path_flat(category, vendor) ==
    IF is_valid_vendor(vendor)
    THEN CAT_CN_MAP(category) \o S1(SEP) \o sanitize_path_component(vendor)
    ELSE CAT_CN_MAP(category)

\* build_semantic_path with the default templates "{category}/{vendor}" and
\* "{category}/General"
build_semantic_path(category, vendor) ==
    IF is_valid_vendor(vendor)
    THEN CAT_CN_MAP(category) \o S1(SEP) \o sanitize_path_component(vendor)
    ELSE CAT_CN_MAP(category) \o S1(SEP) \o <<"G","e","n","e","r","a","l">>

\* routing.date_partition_types, by default
date_partition_types == {"invoice", "receipt", "bank_statement"}

-----------------------------------------------------------------------------
(* core/memory/repository.py: the learned preferences.  A confidence is in   *)
(* hundredths (0.7 is 70).                                                   *)

\* a row of learned_preferences
LearnedPreference(preference_type, trigger_vendor, trigger_doc_type, preference_value, confidence, enabled) ==
    [preference_type |-> preference_type, trigger_vendor |-> trigger_vendor,
     trigger_doc_type |-> trigger_doc_type, preference_value |-> preference_value,
     confidence |-> confidence, enabled |-> enabled]

\* .order_by(desc(confidence)).first(): the rows that can come first (rows of
\* equal confidence come in the order the database pleases)
first_by_confidence(matches) == {r \in matches : \A q \in matches : q.confidence <= r.confidence}

\* get_preference without the confidence floor
get_preference_no_floor(rows, preference_type, context, floor, db_ok) ==
    LET query == {r \in rows : r.preference_type = preference_type /\ r.enabled}
        exact == {r \in query : /\ r.trigger_vendor = context.vendor
                                /\ r.trigger_doc_type = context.doc_type}
        vendor_match == {r \in query : r.trigger_vendor = context.vendor}
    IN  IF ~db_ok THEN {<<>>}
        ELSE IF context.vendor # <<>> /\ context.doc_type # "" /\ exact # {}
        THEN {r.preference_value : r \in first_by_confidence(exact)}
        ELSE IF context.vendor # <<>> /\ vendor_match # {}
        THEN {r.preference_value : r \in first_by_confidence(vendor_match)}
        ELSE {<<>>}

\* PreferenceRepository.get_preference: the values it can return, <<>> for None;
\* db_ok is false when the query raises, which the method turns into None
get_preference(rows, preference_type, context, floor, db_ok) ==
    LET query == {r \in rows : /\ r.preference_type = preference_type
                               /\ r.enabled
                               /\ r.confidence >= floor}
        exact == {r \in query : /\ r.trigger_vendor = context.vendor
                                /\ r.trigger_doc_type = context.doc_type}
        vendor_match == {r \in query : r.trigger_vendor = context.vendor}
    IN  IF ~db_ok THEN {<<>>}
        ELSE IF context.vendor # <<>> /\ context.doc_type # "" /\ exact # {}
        THEN {r.preference_value : r \in first_by_confidence(exact)}
        ELSE IF context.vendor # <<>> /\ vendor_match # {}
        THEN {r.preference_value : r \in first_by_confidence(vendor_match)}
        ELSE {<<>>}

-----------------------------------------------------------------------------
(* run_graph_once.py: the workflow state and its nodes *)

\* state.get(k, default) on the JanitorState dict
Has(d, k) == k \in DOMAIN d

Get(d, k, default) == IF k \in DOMAIN d THEN d[k] ELSE default

\* state[k] = v
Put(d, k, v) == [x \in DOMAIN d \cup {k} |-> IF x = k THEN v ELSE d[x]]

\* no JanitorState: no run of process_file is in progress
NoState == [idle |-> TRUE]

\* a path value that is None
NoPath == <<>>

\* cfg["paths"]["archive"]
archive_root == << <<"a","r","c","h","i","v","e">> >>

\* Path("pending")
pending_root == << <<"p","e","n","d","i","n","g">> >>

\* node_extract_preview: the metadata of the extraction result is stored
node_extract_preview(state, result) ==
    Put(state, "extraction_metadata",
        [method |-> result.method, quality_score |-> result.quality_score,
         needs_review |-> result.needs_review])

\* node_llm_analyze: the analysis is stored, or the error when analyze_file
\* (or reading its result) raised
node_llm_analyze(state, a) ==
    IF a.raised THEN Put(state, "error", "llm_failed")
    ELSE Put(state, "analysis",
             [category |-> a.category, suggested_filename |-> a.suggested_filename,
              extracted_date |-> a.extracted_date, vendor_or_party |-> a.vendor_or_party])

\* the plan node_build_plan makes when an earlier step reported an error
error_plan(state) ==
    RenamePlan("error", name(state.file_path), <<"q","u","a","r","a","n","t","i","n","e","/","f","a","i","l","e","d">>,
               FALSE, << <<state.error, "">> >>)

\* min_confidence=0.7 (hundredths)
min_confidence == 70

\* node_build_plan, priority 1: the values the lookup of the learned folder can give
learned_folder_lookup(state, db_ok) ==
    IF Has(state, "preference_repo")
    THEN get_preference(state.preference_repo, "vendor_folder",
                        [vendor |-> state.analysis.vendor_or_party, doc_type |-> state.analysis.category],
                        min_confidence, db_ok)
    ELSE {<<>>}

\* the routing decision with the date partition tried before the learned folder
route_date_first(category, vendor, date_str, learned_folder) ==
    IF category \in date_partition_types
    THEN <<build_date_partition_path(category, date_str), "date_partition">>
    ELSE IF learned_folder # <<>> THEN <<learned_folder, "memory">>
    ELSE <<build_semantic_path(category, vendor), "semantic">>

\* the routing decision of node_build_plan: <<target_dir_rel, routing_source>>;
\* learned_folder is what get_preference returned ("" for None or an exception)
route(category, vendor, date_str, learned_folder) ==
    IF learned_folder # <<>> THEN <<learned_folder, "memory">>
    ELSE IF category \in date_partition_types
    THEN <<build_date_partition_path(category, date_str), "date_partition">>
    ELSE <<build_semantic_path(category, vendor), "semantic">>

\* the file name node_build_plan proposes: the extension is added when missing
plan_name(fp, suggested) ==
    LET ext == suffix(name(fp))
    IN  IF ext # <<>> /\ ~endswith(lower(suggested), lower(ext))
        THEN suggested \o lower(ext) ELSE suggested

node_build_plan(state, learned_folder) ==
    IF Has(state, "error")
    THEN Put(Put(state, "plan", error_plan(state)), "routing_source", "error")
    ELSE LET a == state.analysis
             r == route(a.category, a.vendor_or_party, a.extracted_date, learned_folder)
             plan == RenamePlan(a.category, plan_name(state.file_path, a.suggested_filename),
                                r[1], FALSE, <<>>)
         IN  Put(Put(Put(state, "routing_source", r[2]),
                     "used_learned_preference", learned_folder # <<>>),
                 "plan", plan)

node_validate(state, pf) == Put(state, "plan", validate_plan(state.plan, pf))

\* fp.stem.replace(" ", "_")[:30]
safe_filename(fp) ==
    LET s == replace_chars(stem(name(fp)), {" "}, "_")
    IN  SubSeq(s, 1, IF Len(s) < 30 THEN Len(s) ELSE 30)

\* Path("pending") / f"plan_{timestamp}_{safe_filename}.json"
pending_path(fp, timestamp) ==
    Append(pending_root, <<"p","l","a","n","_">> \o str_int(timestamp) \o <<"_">> \o safe_filename(fp) \o <<".","j","s","o","n">>)

\* the pending_data dict written as JSON
pending_data(state) ==
    [original_file |-> state.file_path, original_name |-> name(state.file_path),
     new_name |-> state.plan.new_name, dest_dir |-> state.plan.dest_dir,
     category |-> state.plan.category, status |-> "pending",
     ocr_quality_issue |-> Get(Get(state, "extraction_metadata", [x |-> 0]), "needs_review", FALSE)]

\* node_human_review with the validity check after the auto-approve branch
node_human_review_approve_first(state, pdir, timestamp, write_ok) ==
    LET ocr_needs_review ==
            Get(Get(state, "extraction_metadata", [x |-> 0]), "needs_review", FALSE)
        auto_approve == IF ocr_needs_review THEN FALSE ELSE Get(state, "auto_approve", FALSE)
    IN  IF auto_approve
        THEN [state |-> Put(Put(state, "approved", TRUE), "decision", "approved"),
              pending |-> pdir, raised |-> FALSE]
        ELSE [state |-> Put(Put(state, "approved", FALSE), "decision", "auto_reject_invalid"),
              pending |-> pdir, raised |-> FALSE]

\* node_human_review without the OCR quality override of auto_approve
node_human_review_no_override(state, pdir, timestamp, write_ok) ==
    LET path == pending_path(state.file_path, timestamp)
    IN  IF ~state.plan.is_valid
        THEN [state |-> Put(Put(state, "approved", FALSE), "decision", "auto_reject_invalid"),
              pending |-> pdir, raised |-> FALSE]
        ELSE IF Get(state, "auto_approve", FALSE)
        THEN [state |-> Put(Put(state, "approved", TRUE), "decision", "approved"),
              pending |-> pdir, raised |-> FALSE]
        ELSE IF ~write_ok
        THEN [state |-> state, pending |-> pdir, raised |-> TRUE]
        ELSE [state |-> Put(Put(Put(state, "approved", FALSE), "decision", "pending"),
                            "pending_file", path),
              pending |-> [q \in DOMAIN pdir \cup {path} |->
                              IF q = path THEN pending_data(state) ELSE pdir[q]],
              raised |-> FALSE]

\* node_human_review: the state after the gate and the pending directory after
\* it; raised when writing the artifact failed (the exception leaves the node)
node_human_review(state, pdir, timestamp, write_ok) ==
    LET plan == state.plan
        extraction_metadata == Get(state, "extraction_metadata", [x |-> 0])
        ocr_needs_review == Get(extraction_metadata, "needs_review", FALSE)
        auto_approve == IF ocr_needs_review THEN FALSE ELSE Get(state, "auto_approve", FALSE)
        path == pending_path(state.file_path, timestamp)
    IN  IF ~plan.is_valid
        THEN [state |-> Put(Put(state, "approved", FALSE), "decision", "auto_reject_invalid"),
              pending |-> pdir, raised |-> FALSE]
        ELSE IF auto_approve
        THEN [state |-> Put(Put(state, "approved", TRUE), "decision", "approved"),
              pending |-> pdir, raised |-> FALSE]
        ELSE IF ~write_ok
        THEN [state |-> state, pending |-> pdir, raised |-> TRUE]
        ELSE [state |-> Put(Put(Put(state, "approved", FALSE), "decision", "pending"),
                            "pending_file", path),
              pending |-> [q \in DOMAIN pdir \cup {path} |->
                              IF q = path THEN pending_data(state) ELSE pdir[q]],
              raised |-> FALSE]

\* route_after_review sending every decision to apply
route_after_review_always_apply(state) == "apply"

\* route_after_review
route_after_review(state) == IF Get(state, "approved", FALSE) THEN "apply" ELSE "skip"

\* node_apply moving the file whatever dry_run says
node_apply_ignores_dry_run(state, f, io, pf) ==
    LET plan == state.plan
        dst == PathJoin(PathJoin(archive_root, plan.dest_dir, pf), plan.new_name, pf)
        moved == safe_move_file(f, state.file_path, dst, io)
        ok == moved.result.status = "success"
    IN  [state |-> Put(state, "record",
                       [original_file |-> state.file_path, plan |-> plan,
                        dry_run |-> Get(state, "dry_run", TRUE),
                        approved |-> Get(state, "approved", FALSE),
                        decision |-> Get(state, "decision", "no_decision"),
                        execution_status |-> IF ok THEN "success" ELSE "failed",
                        moved_to |-> IF ok THEN moved.result.dst ELSE NoPath,
                        routing_source |-> Get(state, "routing_source", "unknown")]),
         fs |-> moved.fs]

\* node_apply that records the planned destination whatever the move reports
node_apply_records_planned_path(state, f, io, pf) ==
    LET plan == state.plan
        dst == PathJoin(PathJoin(archive_root, plan.dest_dir, pf), plan.new_name, pf)
        moved == safe_move_file(f, state.file_path, dst, io)
        ok == moved.result.status = "success"
        record(execution_status, moved_to, s) ==
            [original_file |-> s.file_path, plan |-> plan, dry_run |-> Get(s, "dry_run", TRUE),
             approved |-> Get(s, "approved", FALSE), decision |-> Get(s, "decision", "no_decision"),
             execution_status |-> execution_status, moved_to |-> moved_to,
             routing_source |-> Get(s, "routing_source", "unknown")]
    IN  IF ~Get(state, "approved", FALSE) THEN [state |-> state, fs |-> f]
        ELSE IF Get(state, "dry_run", TRUE)
        THEN [state |-> Put(state, "record", record("dry_run", NoPath, state)), fs |-> f]
        ELSE LET s2 == Put(state, "move_result", moved.result)
             IN  [state |-> Put(s2, "record",
                                record(IF ok THEN "success" ELSE "failed", dst, s2)),
                  fs |-> moved.fs]

\* node_apply: the state with the record, and the file system after the move
node_apply(state, f, io, pf) ==
    LET plan == state.plan
        dst == PathJoin(PathJoin(archive_root, plan.dest_dir, pf), plan.new_name, pf)
        moved == safe_move_file(f, state.file_path, dst, io)
        ok == moved.result.status = "success"
        record(execution_status, moved_to, s) ==
            [original_file |-> s.file_path, plan |-> plan, dry_run |-> Get(s, "dry_run", TRUE),
             approved |-> Get(s, "approved", FALSE), decision |-> Get(s, "decision", "no_decision"),
             execution_status |-> execution_status, moved_to |-> moved_to,
             routing_source |-> Get(s, "routing_source", "unknown")]
    IN  IF ~Get(state, "approved", FALSE) THEN [state |-> state, fs |-> f]
        ELSE IF Get(state, "dry_run", TRUE)
        THEN [state |-> Put(state, "record", record("dry_run", NoPath, state)), fs |-> f]
        ELSE LET s2 == Put(state, "move_result", moved.result)
             IN  [state |-> Put(s2, "record",
                                record(IF ok THEN "success" ELSE "failed",
                                       IF ok THEN moved.result.dst ELSE NoPath, s2)),
                  fs |-> moved.fs]

\* node_skip that leaves the pending file out of the record
node_skip_forgets_pending_file(state) ==
    LET decision == Get(state, "decision", "skipped")
    IN  Put(state, "record",
            [original_file |-> state.file_path, plan |-> state.plan,
             dry_run |-> Get(state, "dry_run", TRUE), approved |-> FALSE,
             decision |-> decision, pending_file |-> NoPath,
             routing_source |-> Get(state, "routing_source", "unknown")])

\* node_skip: the state with the record; nothing else changes
node_skip(state) ==
    LET decision == Get(state, "decision", "skipped")
    IN  Put(state, "record",
            [original_file |-> state.file_path, plan |-> state.plan,
             dry_run |-> Get(state, "dry_run", TRUE), approved |-> FALSE,
             decision |-> decision, pending_file |-> Get(state, "pending_file", NoPath),
             routing_source |-> Get(state, "routing_source", "unknown")])

-----------------------------------------------------------------------------
(* The workflow as a state machine: process_file runs the compiled graph   *)
(* extract_preview -> llm_analyze -> build_plan -> validate ->              *)
(* human_review -> apply | skip -> END, one file at a time.                 *)

MaxRuns == 1

\* the files process_file is called on
InboxFiles == { << <<"i","n","b","o","x">>, <<"a",".","t","x","t">> >>, << <<"i","n","b","o","x">>, <<"b",".","t","x","t">> >> }

\* what extract_text_preview_enhanced may report (needs_review iff quality_score < 60)
ExtractionResults ==
    { [method |-> "direct", quality_score |-> 90, needs_review |-> FALSE],
      [method |-> "rapidocr", quality_score |-> 40, needs_review |-> TRUE] }

\* what analyze_file may return, or that the call raised
Analyses ==
    { [raised |-> TRUE, category |-> "", suggested_filename |-> <<>>,
       extracted_date |-> <<>>, vendor_or_party |-> <<>>],
      [raised |-> FALSE, category |-> "default", suggested_filename |-> <<"d","o","c">>,
       extracted_date |-> <<>>, vendor_or_party |-> <<>>],
      [raised |-> FALSE, category |-> "invoice", suggested_filename |-> <<"d","o","c",".","t","x","t">>,
       extracted_date |-> <<"2","0","2","4","-","0","3">>, vendor_or_party |-> <<"a","c","m","e">>],
      [raised |-> FALSE, category |-> "contract", suggested_filename |-> <<"C","O","N">>,
       extracted_date |-> <<>>, vendor_or_party |-> <<"a","c","m","e">>] }

\* the folders the learned preferences hold
LearnedFolders == { <<"m","e","m">>, <<".",".","/","u","p">>, <<"/","a","b","s">> }

\* the learned_preferences tables a run may find: empty, or one preference learned
\* for the vendor of the analyses
PreferenceStores ==
    { {} } \cup
    { { LearnedPreference("vendor_folder", <<"a","c","m","e">>, "invoice", folder, 80, TRUE) } : folder \in LearnedFolders }

\* the file systems a run may start from: the inbox files, and possibly a file
\* already archived under the name the plan will propose
BaseFS ==
    LET dirs == { <<>>, << <<"i","n","b","o","x">> >>, pending_root, archive_root }
        files == InboxFiles
    IN  [q \in dirs \cup files |->
            IF q \in dirs THEN Dir
            ELSE File(IF q = << <<"i","n","b","o","x">>, <<"a",".","t","x","t">> >> THEN 1 ELSE 2)]

ArchivedDoc == archive_root \o << CN_default, <<"G","e","n","e","r","a","l">>, <<"d","o","c",".","t","x","t">> >>

WithFile(f, path, content) ==
    LET made == mkdir_parents(f, parent(path), "ok").fs
    IN  [q \in DOMAIN made \cup {path} |-> IF q = path THEN File(content) ELSE made[q]]

PipelineInitFS == { BaseFS, WithFile(BaseFS, ArchivedDoc, 10) }

NoPlan == RenamePlan("", <<>>, <<>>, FALSE, <<>>)

NoMove == [called |-> FALSE]

NoLookup == [called |-> FALSE, value |-> <<>>, db_ok |-> TRUE]

NoPending == [q \in {} |-> 0]

Init ==
    /\ platform \in Platforms
    /\ fs \in PipelineInitFS
    /\ fs0 = fs
    /\ pc = "idle" /\ st = NoState /\ pendingDir = NoPending /\ records = <<>> /\ runs = 0
    /\ vphase = "off" /\ vplan = NoPlan /\ vin = NoPlan
    /\ mv = NoMove /\ calls = 0 /\ learned = NoLookup /\ ex = NoExtraction /\ cache = NoCache
    /\ OffstageIdle

others == <<platform, vphase, vplan, vin, mv, calls, learned, ex, cache, offstage>>

\* JanitorWorkflow.process_file: the initial state is built and the graph invoked
ProcessFile ==
    /\ pc = "idle" /\ runs < MaxRuns
    /\ \E fp \in InboxFiles, dry_run \in BOOLEAN, auto_approve \in BOOLEAN, repo \in PreferenceStores :
          st' = [file_path |-> fp, dry_run |-> dry_run, auto_approve |-> auto_approve,
                 preference_repo |-> repo]
    /\ pc' = "extract_preview"
    /\ runs' = runs + 1
    /\ fs0' = fs
    /\ UNCHANGED <<fs, pendingDir, records, others>>

NodeExtractPreview ==
    /\ pc = "extract_preview"
    /\ \E result \in ExtractionResults : st' = node_extract_preview(st, result)
    /\ pc' = "llm_analyze"
    /\ UNCHANGED <<fs, fs0, pendingDir, records, runs, others>>

NodeLlmAnalyze ==
    /\ pc = "llm_analyze"
    /\ \E a \in Analyses : st' = node_llm_analyze(st, a)
    /\ pc' = "build_plan"
    /\ UNCHANGED <<fs, fs0, pendingDir, records, runs, others>>

\* node_build_plan; the preference lookup is made unless an earlier step failed
NodeBuildPlan ==
    /\ pc = "build_plan"
    /\ IF Has(st, "error")
       THEN /\ st' = node_build_plan(st, <<>>)
            /\ learned' = NoLookup
       ELSE \E db_ok \in BOOLEAN :
              \E learned_folder \in learned_folder_lookup(st, db_ok) :
                 /\ st' = node_build_plan(st, learned_folder)
                 /\ learned' = [called |-> TRUE, value |-> learned_folder, db_ok |-> db_ok]
    /\ pc' = "validate"
    /\ UNCHANGED <<fs, fs0, pendingDir, records, runs, platform, vphase, vplan, vin, mv, calls, ex, cache, offstage>>

NodeValidate ==
    /\ pc = "validate"
    /\ st' = node_validate(st, platform)
    /\ pc' = "human_review"
    /\ UNCHANGED <<fs, fs0, pendingDir, records, runs, others>>

NodeHumanReview ==
    /\ pc = "human_review"
    /\ \E write_ok \in BOOLEAN :
          LET r == node_human_review(st, pendingDir, runs, write_ok)
          IN  /\ st' = r.state
              /\ pendingDir' = r.pending
              /\ pc' = IF r.raised THEN "raised" ELSE route_after_review(r.state)
    /\ UNCHANGED <<fs, fs0, records, runs, others>>

NodeApply ==
    /\ pc = "apply"
    /\ \E io \in IOOutcomes :
          LET r == node_apply(st, fs, io, platform)
          IN  st' = r.state /\ fs' = r.fs
    /\ pc' = "END"
    /\ UNCHANGED <<fs0, pendingDir, records, runs, others>>

NodeSkip ==
    /\ pc = "skip"
    /\ st' = node_skip(st)
    /\ pc' = "END"
    /\ UNCHANGED <<fs, fs0, pendingDir, records, runs, others>>

\* process_file returns final_state.get("record", {})
Return ==
    /\ pc = "END"
    /\ records' = Append(records, Get(st, "record", [empty |-> TRUE]))
    /\ st' = NoState
    /\ pc' = "idle"
    /\ UNCHANGED <<fs, fs0, pendingDir, runs, others>>

\* an exception raised inside a node leaves process_file: no record is returned
Propagate ==
    /\ pc = "raised"
    /\ st' = NoState
    /\ pc' = "idle"
    /\ UNCHANGED <<fs, fs0, pendingDir, records, runs, others>>

Next ==
    \/ ProcessFile
    \/ NodeExtractPreview
    \/ NodeLlmAnalyze
    \/ NodeBuildPlan
    \/ NodeValidate
    \/ NodeHumanReview
    \/ NodeApply
    \/ NodeSkip
    \/ Return
    \/ Propagate

Spec == Init /\ [][Next]_vars

-----------------------------------------------------------------------------
(* safe_move_file called directly (specification SpecMove) *)

MaxCalls == 1

\* the suffixes up to which every combination of occupied names is tried
MaxSuffix == 2

MoveDst == archive_root \o << <<"d">>, <<"r",".","t","x","t">> >>

\* the k-th name of the collision sequence: r.txt, r_1.txt, r_2.txt, ...
Occupant(k) == IF k = 0 THEN MoveDst ELSE candidate(MoveDst, k)

MoveBaseFS ==
    LET dirs == { <<>>, << <<"i","n","b","o","x">> >>, << <<"i","n","b","o","x">>, <<"s","u","b">> >>, archive_root, parent(MoveDst) }
        files == { << <<"i","n","b","o","x">>, <<"a",".","t","x","t">> >>, << <<"i","n","b","o","x">>, <<"b",".","t","x","t">> >> }
    IN  [q \in dirs \cup files |->
            IF q \in dirs THEN Dir
            ELSE File(IF q = << <<"i","n","b","o","x">>, <<"a",".","t","x","t">> >> THEN 1 ELSE 2)]

\* the file system with the names Occupant(k), k in ks, taken by earlier files
Occupied(ks) ==
    LET taken == {Occupant(k) : k \in ks}
    IN  [q \in DOMAIN MoveBaseFS \cup taken |->
            IF q \in taken THEN File(10 + CHOOSE k \in ks : Occupant(k) = q) ELSE MoveBaseFS[q]]

\* every combination of the first names, and the directories where all the
\* candidates but the last, and all of them, are taken
MoveInitFS ==
    {Occupied(ks) : ks \in SUBSET (0..MaxSuffix)}
    \cup {Occupied(0..(max_attempts - 1)), Occupied(0..max_attempts)}

MoveSources ==
    { << <<"i","n","b","o","x">>, <<"a",".","t","x","t">> >>, << <<"i","n","b","o","x">>, <<"b",".","t","x","t">> >>, << <<"i","n","b","o","x">>, <<"s","u","b">> >>,
      << <<"i","n","b","o","x">>, <<"g","o","n","e",".","t","x","t">> >>, MoveDst }

MoveDests ==
    { MoveDst, archive_root \o << <<"n","e","w">>, <<"r",".","t","x","t">> >>, << <<"i","n","b","o","x">>, <<"b",".","t","x","t">>, <<"r",".","t","x","t">> >> }

InitMove ==
    /\ platform \in Platforms
    /\ fs \in MoveInitFS
    /\ fs0 = fs
    /\ mv = NoMove /\ calls = 0 /\ learned = NoLookup /\ ex = NoExtraction /\ cache = NoCache
    /\ OffstageIdle
    /\ pc = "idle" /\ st = NoState /\ pendingDir = NoPending /\ records = <<>> /\ runs = 0
    /\ vphase = "off" /\ vplan = NoPlan /\ vin = NoPlan

\* one call safe_move_file(src, dst)
SafeMoveFile ==
    /\ calls < MaxCalls
    /\ \E src \in MoveSources, dst \in MoveDests, io \in IOOutcomes :
          LET r == safe_move_file(fs, src, dst, io)
          IN  /\ mv' = [called |-> TRUE, src |-> src, dst |-> dst,
                        result |-> r.result, probes |-> r.probes]
              /\ fs' = r.fs
    /\ fs0' = fs
    /\ calls' = calls + 1
    /\ UNCHANGED <<platform, vphase, vplan, vin, pc, st, pendingDir, records, runs, learned, ex, cache, offstage>>

NextMove == SafeMoveFile

SpecMove == InitMove /\ [][NextMove]_vars

-----------------------------------------------------------------------------
(* node_build_plan on the states node_llm_analyze leaves (specification      *)
(* SpecRoute)                                                                *)

MaxVendorLen == 3

MaxDateTail == 4

Acme == <<"a","c","m","e">>

RouteCategories == {"invoice", "receipt", "bank_statement", "contract", "default", "memo"}

VendorAlphabet == {"a", ".", " ", "/"}

\* vendor_or_party values; <<>> is None or ""
RouteVendors ==
    { Acme, <<"U","n","k","n","o","w","n">>, <<" ","N","/","A"," ">>, <<"n","o","n","e">>, <<"n","u","l","l">>,
      <<"u65E0">>, <<"u672A","u77E5">>, <<"a","c","m","e"," ","."," ">>, <<"a",":","b","*","c">> }
    \cup AllStrings(VendorAlphabet, MaxVendorLen)

DateTailAlphabet == {"4", "-", "0", "3", "/"}

\* extracted_date values; <<>> is None or ""
RouteDates ==
    { <<>>, <<"2","0","2","4","-","0","3">>, <<"2","0","2","4","-","0","3","-","1","5">>, <<"2","0","2","4",".","1","2">>,
      <<"1","9","9","9","-","0","3">>, <<"2","0","2","4","0","3">>,
      <<"2","0","2","5","u5E74","1","2","u6708">>,
      <<"D","e","c"," ","1","4",","," ","2","0","2","5">>, <<"D","e","c","e","m","b","e","r"," ","2","0","2","5">>,
      <<"s","o","o","n">> }
    \cup { <<"2","0","2">> \o t : t \in AllStrings(DateTailAlphabet, MaxDateTail) }

\* rows learned_preferences may hold
PreferenceRows ==
    { LearnedPreference("vendor_folder", Acme, "contract", <<"m","e","m">>, 80, TRUE),
      LearnedPreference("vendor_folder", Acme, "contract", <<"l","o","w">>, 60, TRUE),
      LearnedPreference("vendor_folder", Acme, "invoice", <<"i","n","v">>, 90, TRUE),
      LearnedPreference("vendor_folder", Acme, "receipt", <<"f","l","o","o","r">>, 70, TRUE),
      LearnedPreference("vendor_folder", Acme, "paper", <<"t","i","e">>, 90, TRUE),
      LearnedPreference("vendor_folder", Acme, "default", <<"o","f","f">>, 100, FALSE),
      LearnedPreference("vendor_folder", <<"z","e","t","a">>, "contract", <<"z","e","t","a">>, 100, TRUE),
      LearnedPreference("naming_template", Acme, "contract", <<"t","p","l">>, 100, TRUE) }

\* update_preference keeps one row for a (preference_type, vendor, doc_type)
KeyUnique(rows) ==
    \A r, q \in rows :
        ( /\ r.preference_type = q.preference_type
          /\ r.trigger_vendor = q.trigger_vendor
          /\ r.trigger_doc_type = q.trigger_doc_type ) => r = q

RouteStores == {rows \in SUBSET PreferenceRows : Cardinality(rows) <= 2 /\ KeyUnique(rows)}

RouteAnalysis(category, vendor, date_str) ==
    [raised |-> FALSE, category |-> category, suggested_filename |-> <<"d","o","c">>,
     extracted_date |-> date_str, vendor_or_party |-> vendor]

\* the (analysis, learned_preferences) pairs node_build_plan is run on
RouteInputs ==
    { <<RouteAnalysis(c, v, d), rows>> :
        c \in RouteCategories, v \in {<<>>, Acme, <<"U","n","k","n","o","w","n">>},
        d \in {<<>>, <<"2","0","2","4","-","0","3">>}, rows \in RouteStores }
    \cup { <<RouteAnalysis(c, v, <<>>), {}>> : c \in {"contract", "memo"}, v \in RouteVendors }
    \cup { <<RouteAnalysis("invoice", Acme, d), {}>> : d \in RouteDates }
    \cup { <<a, {}>> : a \in {x \in Analyses : x.raised} }

\* the state after node_extract_preview and node_llm_analyze
InitRoute ==
    /\ platform \in Platforms
    /\ \E input \in RouteInputs :
          st = node_llm_analyze(
                  node_extract_preview(
                      [file_path |-> << <<"i","n","b","o","x">>, <<"a",".","t","x","t">> >>,
                       dry_run |-> TRUE, auto_approve |-> FALSE, preference_repo |-> input[2]],
                      [method |-> "direct", quality_score |-> 90, needs_review |-> FALSE]),
                  input[1])
    /\ pc = "build_plan"
    /\ fs = BaseFS /\ fs0 = fs /\ pendingDir = NoPending /\ records = <<>> /\ runs = 1
    /\ vphase = "off" /\ vplan = NoPlan /\ vin = NoPlan
    /\ mv = NoMove /\ calls = 0 /\ learned = NoLookup /\ ex = NoExtraction /\ cache = NoCache
    /\ OffstageIdle

NextRoute == NodeBuildPlan

SpecRoute == InitRoute /\ [][NextRoute]_vars

-----------------------------------------------------------------------------
(* validate_plan called directly (specification SpecValidate) *)

MaxDirLen == 4

MaxNameChars == 3

DirAlphabet == {".", "/", "\\", "a", ":", " "}

NameAlphabet == {"a", ".", " ", "<"}

\* the dest_dir values of test_directory_traversal and test_absolute_path
TestDirs ==
    { <<".",".","/",".",".","/",".",".","/","e","t","c","/","p","a","s","s","w","d">>, <<"a","r","c","h","i","v","e","/",".",".","/",".",".","/","s","y","s","t","e","m">>, <<".",".","\\",".",".","\\","W","i","n","d","o","w","s","\\","S","y","s","t","e","m","3","2">>,
      <<"/","h","o","m","e","/","u","s","e","r","/","a","r","c","h","i","v","e">>, <<"C",":","\\","U","s","e","r","s","\\","D","o","c","u","m","e","n","t","s">>, <<"D",":","/","d","a","t","a","/","f","i","l","e","s">> }

\* the new_name of test_invalid_filename
TestInvalidName == <<"u53D1","u7968","<",">",":","\"","/","\\","|","?","*",".","p","d","f">>

ValidatorDirs == TestDirs \cup AllStrings(DirAlphabet, MaxDirLen)

ValidatorNames ==
    { <<"t","e","s","t",".","t","x","t">>, <<"C","O","N",".","t","x","t">>, <<"c","o","n">>, [i \in 1..(MaxNameLen + 1) |-> "a"],
      TestInvalidName }
    \cup AllStrings(NameAlphabet, MaxNameChars)

\* RenamePlan(category="default", new_name=..., dest_dir=...): is_valid defaults
\* to False and validation_msg to ""
ValidatorPlans ==
    {RenamePlan("default", <<"t","e","s","t",".","t","x","t">>, d, FALSE, <<>>) : d \in ValidatorDirs}
    \cup {RenamePlan("default", n, <<"a","r","c","h","i","v","e">>, FALSE, <<>>) : n \in ValidatorNames}

InitValidate ==
    /\ platform \in Platforms
    /\ vin \in ValidatorPlans
    /\ vplan = vin
    /\ vphase = "built"
    /\ fs = BaseFS /\ fs0 = fs /\ mv = NoMove /\ calls = 0 /\ learned = NoLookup /\ ex = NoExtraction /\ cache = NoCache
    /\ OffstageIdle
    /\ pc = "idle" /\ st = NoState /\ pendingDir = NoPending /\ records = <<>> /\ runs = 0

\* one call validate_plan(plan); a validated plan may be validated again
ValidatePlan ==
    /\ vphase \in {"built", "validated"}
    /\ vplan' = validate_plan(vplan, platform)
    /\ vphase' = IF vphase = "built" THEN "validated" ELSE "validated_twice"
    /\ UNCHANGED <<platform, vin, fs, fs0, mv, calls, pc, st, pendingDir, records, runs, learned, ex, cache, offstage>>

NextValidate == ValidatePlan

SpecValidate == InitValidate /\ [][NextValidate]_vars

-----------------------------------------------------------------------------
(* utils/file_ops.py: text extraction with OCR fallback and cache *)

(* An extracted text is a Python str too long to spell out one character at a
   time (the thresholds are 50, 100 and 1000 characters), so it is kept as its
   runs: a sequence of <<class, n>>, n >= 1 characters of one class, adjacent
   runs of different classes.  The classes are the ones the code distinguishes:
     "a"  c.isalnum()
     " "  c.isspace()
     ","  one of the punctuation marks listed at lines 87 and 275
     "#"  any other character *)
CharClasses == {"a", " ", ",", "#"}

\* the classes should_use_ocr and calculate_quality_score count as normal
NormalClasses == {"a", " ", ","}

RECURSIVE text_len(_)
\* len(text)
text_len(text) ==
    IF text = <<>> THEN 0 ELSE Head(text)[2] + text_len(Tail(text))

RECURSIVE count_chars(_, _)
\* sum(1 for c in text if <c is of one of the classes>)
count_chars(text, classes) ==
    IF text = <<>> THEN 0
    ELSE (IF Head(text)[1] \in classes THEN Head(text)[2] ELSE 0) + count_chars(Tail(text), classes)

RECURSIVE text_lstrip(_)
text_lstrip(text) ==
    IF text # <<>> /\ Head(text)[1] = " " THEN text_lstrip(Tail(text)) ELSE text

RECURSIVE text_rstrip(_)
text_rstrip(text) ==
    IF text # <<>> /\ text[Len(text)][1] = " "
    THEN text_rstrip(SubSeq(text, 1, Len(text) - 1))
    ELSE text

\* text.strip()
text_strip(text) == text_rstrip(text_lstrip(text))

RECURSIVE text_prefix(_, _)
\* text[:limit]
text_prefix(text, limit) ==
    IF text = <<>> \/ limit <= 0 THEN <<>>
    ELSE IF Head(text)[2] >= limit THEN << <<Head(text)[1], limit>> >>
    ELSE <<Head(text)>> \o text_prefix(Tail(text), limit - Head(text)[2])

\* the default of the parameter limit
default_limit == 1000

\* the per-page density below which a PDF is taken for a scan
min_chars_per_page == 100

\* should_use_ocr without the density condition
should_use_ocr_no_density(extracted_text, page_count) ==
    LET text_stripped == text_strip(extracted_text)
        char_count == text_len(text_stripped)
        whitespace_count == count_chars(extracted_text, {" "})
        normal_chars == count_chars(text_stripped, NormalClasses)
    IN  IF extracted_text = <<>> \/ char_count = 0
        THEN [needs |-> TRUE, reason |-> "empty"]
        ELSE IF 10 * whitespace_count > 9 * text_len(extracted_text)
        THEN [needs |-> TRUE, reason |-> "whitespace"]
        ELSE IF 10 * (char_count - normal_chars) >= 3 * char_count
        THEN [needs |-> TRUE, reason |-> "garbage"]
        ELSE [needs |-> FALSE, reason |-> "normal"]

(* should_use_ocr(extracted_text, page_count): (needs OCR, reason).  The
   ratios are Python floats.  whitespace_count / len > 0.9 is decided as the
   real numbers decide it.  1 - normal_chars / char_count > 0.3 is not: when
   exactly 30% of the characters are garbage, normal_chars / char_count rounds
   to the double below 0.7, the difference is 0.30000000000000004, and that is
   greater than the double 0.3; the comparison is therefore >= on the exact
   ratio. *)
should_use_ocr(extracted_text, page_count) ==
    LET text_stripped == text_strip(extracted_text)
        char_count == text_len(text_stripped)
        whitespace_count == count_chars(extracted_text, {" "})
        normal_chars == count_chars(text_stripped, NormalClasses)
    IN  IF extracted_text = <<>> \/ char_count = 0
        THEN [needs |-> TRUE, reason |-> "empty"]
        ELSE IF page_count > 0 /\ char_count < min_chars_per_page * page_count
        THEN [needs |-> TRUE, reason |-> "density"]
        ELSE IF 10 * whitespace_count > 9 * text_len(extracted_text)
        THEN [needs |-> TRUE, reason |-> "whitespace"]
        ELSE IF 10 * (char_count - normal_chars) >= 3 * char_count
        THEN [needs |-> TRUE, reason |-> "garbage"]
        ELSE [needs |-> FALSE, reason |-> "normal"]

\* the quality score below which a result is marked for review
review_threshold == 60

\* lines 76-82: the score the length of the stripped text leaves
length_score(char_count) ==
    IF char_count = 0 THEN 0
    ELSE IF char_count < 50 THEN 100 - 30
    ELSE IF char_count < 100 THEN 100 - 15
    ELSE 100

\* garbage_penalty that takes most off the texts with the least garbage
garbage_penalty_reversed(garbage, char_count) ==
    IF char_count = 0 THEN 0
    ELSE IF 10 * garbage > 5 * char_count THEN 10
    ELSE IF 10 * garbage >= 3 * char_count THEN 30
    ELSE IF 10 * garbage > char_count THEN 50
    ELSE 0

(* lines 84-95: what the garbage ratio takes off.  The ratio is the float
   1 - normal_chars / char_count: > 0.5 and > 0.1 are decided as the real
   numbers decide them, > 0.3 holds at exactly 30% too (see should_use_ocr). *)
garbage_penalty(garbage, char_count) ==
    IF char_count = 0 THEN 0
    ELSE IF 10 * garbage > 5 * char_count THEN 50
    ELSE IF 10 * garbage >= 3 * char_count THEN 30
    ELSE IF 10 * garbage > char_count THEN 10
    ELSE 0

\* lines 97-102: what the confidence, in hundredths, takes off
confidence_penalty(confidence) ==
    IF confidence > 0 /\ confidence < 50 THEN 20
    ELSE IF confidence > 0 /\ confidence < 70 THEN 10
    ELSE 0

\* max(0, min(100, score))
clamp(score) == IF score < 0 THEN 0 ELSE IF score > 100 THEN 100 ELSE score

\* calculate_quality_score(text, confidence): (quality_score, needs_review)
calculate_quality_score(text, confidence) ==
    LET char_count == text_len(text_strip(text))
        garbage == char_count - count_chars(text_strip(text), NormalClasses)
        score == clamp(length_score(char_count) - garbage_penalty(garbage, char_count)
                       - confidence_penalty(confidence))
    IN  [quality_score |-> score, needs_review |-> score < review_threshold]

\* the types whose results are looked up in the cache (line 503)
cached_types == {".pdf", ".png", ".jpg", ".jpeg", ".webp"}

\* the raster images, which go straight to OCR (line 517)
image_types == {".png", ".jpg", ".jpeg", ".webp"}

\* OCR_CONFIG.important_max_pages, important_min_size_kb, important_max_size_kb
important_max_pages == 5
important_min_size_kb == 100
important_max_size_kb == 10000

\* is_important_document(pdf_path): keyword in the name, size in range, few pages
is_important_document(file) ==
    /\ file.has_keyword
    /\ important_min_size_kb <= file.size_kb /\ file.size_kb <= important_max_size_kb
    /\ file.page_count <= important_max_pages

\* the result dict as extract_text_preview_enhanced initialises it
NewResult ==
    [text |-> <<>>, method |-> "unknown", confidence |-> 0, quality_score |-> 0,
     needs_review |-> TRUE, page_count |-> 0, char_count |-> 0,
     processing_time_ms |-> "0", error |-> None]

\* what one call consulted, and how each of these answered
NoTrace ==
    [cache_open |-> "unused", file_hash |-> "unused", cache_get |-> "unused",
     reader |-> "unused", vision |-> "unused", rapidocr |-> "unused", cache_set |-> "unused"]

\* the texts an optical engine may return
OcrTexts == { <<>>, << <<"a", 1100>> >>, << <<"a", 40>> >>, << <<"#", 40>> >> }

\* the average confidences RapidOCR may report for recognised lines; none is
\* below its min_confidence of 0.5
OcrConfidences == {55, 90}

(* extract_with_rapidocr(file_path, max_pages): it catches everything and
   returns a dict; on a failure the dict has the error set, no text and
   confidence 0.0; with no line recognised it has no text and confidence 0.0 *)
extract_with_rapidocr ==
    { [text |-> <<>>, confidence |-> 0, error |-> "ocr_error"],
      [text |-> <<>>, confidence |-> 0, error |-> None] }
    \cup { [text |-> t, confidence |-> c, error |-> None] : t \in OcrTexts \ {<<>>}, c \in OcrConfidences }

\* the confidence analyze_scanned_pdf_with_vision reports
vision_confidence == 95

(* analyze_scanned_pdf_with_vision_sync(path), with its import: the import
   fails with ImportError, the call raises another exception (the event loop),
   or a dict comes back, with the error set or with the text of the model *)
analyze_scanned_pdf_with_vision_sync ==
    { [kind |-> "import_error", text |-> <<>>, confidence |-> vision_confidence, error |-> None],
      [kind |-> "raises", text |-> <<>>, confidence |-> vision_confidence, error |-> None],
      [kind |-> "result", text |-> <<>>, confidence |-> vision_confidence, error |-> "vision_error"] }
    \cup { [kind |-> "result", text |-> t, confidence |-> vision_confidence, error |-> None] : t \in OcrTexts }

\* how a trace names the answer of an engine
Answer(r) == IF r.error # None THEN "error" ELSE "text"

\* the outcome of a call: the exception left it, or it returned result
Outcome(raised, result, row, tr) ==
    [raised |-> raised, result |-> result, cache |-> row, trace |-> tr]

\* char_count, the result with its quality score and review flag, and the time taken
scored(r) ==
    LET q == calculate_quality_score(r.text, r.confidence)
    IN  [r EXCEPT !.char_count = text_len(r.text),
                  !.quality_score = q.quality_score,
                  !.needs_review = q.needs_review,
                  !.processing_time_ms = "measured"]

\* the quality score below which a result is not cached
min_cached_quality == 30

\* OCRCache.set(file_hash, text, method, confidence, quality_score) under try:
\* the row is replaced, or the write fails and is logged
save_cache(result, row, tr) ==
    { Outcome(FALSE, result,
              [text |-> result.text, method |-> result.method,
               confidence |-> result.confidence, quality_score |-> result.quality_score],
              [tr EXCEPT !.cache_set = "ok"]),
      Outcome(FALSE, result, row, [tr EXCEPT !.cache_set = "raises"]) }

\* cache_hit that returns the stored method without the tag
cache_hit_untagged(cached, limit) ==
    [NewResult EXCEPT !.text = text_prefix(cached.text, limit),
                      !.method = cached.method,
                      !.confidence = cached.confidence,
                      !.quality_score = cached.quality_score,
                      !.needs_review = cached.quality_score < review_threshold,
                      !.char_count = text_len(text_prefix(cached.text, limit)),
                      !.processing_time_ms = "0"]

\* lines 502-514: the cached row is returned as the result
cache_hit(cached, limit) ==
    [NewResult EXCEPT !.text = text_prefix(cached.text, limit),
                      !.method = cached.method \o "_cached",
                      !.confidence = cached.confidence,
                      !.quality_score = cached.quality_score,
                      !.needs_review = cached.quality_score < review_threshold,
                      !.char_count = text_len(text_prefix(cached.text, limit)),
                      !.processing_time_ms = "0"]

\* lines 519-541: RapidOCR on an image, when it is enabled
image_ocr(config, tr, limit) ==
    IF config.enable_rapidocr
    THEN { [failed |-> FALSE,
            result |-> IF ocr_result.error # None
                       THEN [NewResult EXCEPT !.error = ocr_result.error, !.method = "rapidocr_failed"]
                       ELSE [NewResult EXCEPT !.text = text_prefix(ocr_result.text, limit),
                                              !.method = "rapidocr",
                                              !.confidence = ocr_result.confidence],
            trace |-> [tr EXCEPT !.rapidocr = Answer(ocr_result)]]
           : ocr_result \in extract_with_rapidocr }
    ELSE { [failed |-> FALSE,
            result |-> [NewResult EXCEPT !.error = "disabled", !.method = "disabled"],
            trace |-> tr] }

\* lines 516-577: an image goes straight to OCR; a result with text and quality is cached
extract_image(config, file_hash, row, tr, limit) ==
    UNION {
        UNION {
            IF file_hash # None /\ result.text # <<>> /\ result.quality_score >= min_cached_quality
            THEN save_cache(result, row, step.trace)
            ELSE {Outcome(FALSE, result, row, step.trace)}
            : result \in {scored(step.result)} }
        : step \in image_ocr(config, tr, limit) }

\* the confidence of a direct extraction that needed no OCR
direct_confidence == 95

\* the confidence of a direct extraction kept for want of OCR
fallback_confidence == 30

\* the confidence of the text of another format
other_confidence == 90

\* lines 623-626 and 634-637: RapidOCR after Vision LLM; its result is taken as it is
rapidocr_after_vision(r0, tr, limit) ==
    { [failed |-> FALSE,
       result |-> [r0 EXCEPT !.text = text_prefix(ocr_result.text, limit),
                             !.method = "rapidocr",
                             !.confidence = ocr_result.confidence],
       trace |-> [tr EXCEPT !.rapidocr = Answer(ocr_result)]]
      : ocr_result \in extract_with_rapidocr }

\* lines 603-659: the PDF needs OCR; failed means an exception left the block
pdf_ocr(file, config, direct_text, r0, tr, limit) ==
    IF /\ config.enable_vision_llm
       /\ file.page_count <= important_max_pages
       /\ is_important_document(file)
    THEN UNION {
            IF vision_result.kind = "import_error"
            THEN rapidocr_after_vision(r0, [tr EXCEPT !.vision = "import_error"], limit)
            ELSE IF vision_result.kind = "raises"
            THEN {[failed |-> TRUE, result |-> r0, trace |-> [tr EXCEPT !.vision = "raises"]]}
            ELSE IF vision_result.error # None
            THEN rapidocr_after_vision(r0, [tr EXCEPT !.vision = "error"], limit)
            ELSE {[failed |-> FALSE,
                   result |-> [r0 EXCEPT !.text = text_prefix(vision_result.text, limit),
                                         !.method = "vision_llm",
                                         !.confidence = vision_result.confidence],
                   trace |-> [tr EXCEPT !.vision = "text"]]}
            : vision_result \in analyze_scanned_pdf_with_vision_sync }
    ELSE IF config.enable_rapidocr
    THEN { [failed |-> FALSE,
            result |-> IF ocr_result.error # None
                       THEN [r0 EXCEPT !.text = text_prefix(direct_text, limit),
                                       !.method = "direct_fallback",
                                       !.confidence = fallback_confidence,
                                       !.error = ocr_result.error]
                       ELSE [r0 EXCEPT !.text = text_prefix(ocr_result.text, limit),
                                       !.method = "rapidocr",
                                       !.confidence = ocr_result.confidence],
            trace |-> [tr EXCEPT !.rapidocr = Answer(ocr_result)]]
           : ocr_result \in extract_with_rapidocr }
    ELSE { [failed |-> FALSE,
            result |-> [r0 EXCEPT !.text = text_prefix(direct_text, limit),
                                  !.method = "direct_fallback",
                                  !.confidence = fallback_confidence],
            trace |-> tr] }

\* lines 692-701: the handler of the PDF block
pdf_failed(r0) ==
    [r0 EXCEPT !.error = "pdf_error", !.method = "direct_fallback", !.confidence = 0,
               !.quality_score = calculate_quality_score(<<>>, 0).quality_score,
               !.needs_review = calculate_quality_score(<<>>, 0).needs_review,
               !.processing_time_ms = "measured"]

\* what the PDF reader may do: read, fail to open the file, fail on a page
ReaderOutcomes == {"ok", "raises", "page_raises"}

\* lines 586-665: the text of the PDF, by the reader or by OCR
pdf_text(file, config, direct_text, r0, tr, limit) ==
    IF should_use_ocr(direct_text, file.page_count).needs
    THEN pdf_ocr(file, config, direct_text, r0, tr, limit)
    ELSE { [failed |-> FALSE,
            result |-> [r0 EXCEPT !.text = text_prefix(direct_text, limit),
                                  !.method = "direct",
                                  !.confidence = direct_confidence],
            trace |-> tr] }

\* pdf_finish that caches the result of any method
pdf_finish_caches_all(step, file_hash, row) ==
    IF step.failed
    THEN {Outcome(FALSE, pdf_failed(step.result), row, step.trace)}
    ELSE UNION {
            IF /\ file_hash # None
               /\ result.text # <<>>
               /\ result.quality_score >= min_cached_quality
            THEN save_cache(result, row, step.trace)
            ELSE {Outcome(FALSE, result, row, step.trace)}
            : result \in {scored(step.result)} }

\* lines 667-701: the result is scored, and cached when an optical method gave it
pdf_finish(step, file_hash, row) ==
    IF step.failed
    THEN {Outcome(FALSE, pdf_failed(step.result), row, step.trace)}
    ELSE UNION {
            IF /\ file_hash # None
               /\ result.method \in {"rapidocr", "vision_llm"}
               /\ result.text # <<>>
               /\ result.quality_score >= min_cached_quality
            THEN save_cache(result, row, step.trace)
            ELSE {Outcome(FALSE, result, row, step.trace)}
            : result \in {scored(step.result)} }

\* lines 580-701: a PDF
extract_pdf(file, config, file_hash, row, tr, limit) ==
    UNION {
        IF reader = "raises"
        THEN {Outcome(FALSE, pdf_failed(NewResult), row, [tr EXCEPT !.reader = reader])}
        ELSE IF reader = "page_raises"
        THEN {Outcome(FALSE, pdf_failed([NewResult EXCEPT !.page_count = file.page_count]),
                      row, [tr EXCEPT !.reader = reader])}
        ELSE UNION {
                UNION { pdf_finish(step, file_hash, row)
                        : step \in pdf_text(file, config, direct_text,
                                            [NewResult EXCEPT !.page_count = file.page_count],
                                            [tr EXCEPT !.reader = "ok"], limit) }
                : direct_text \in {text_strip(file.text)} }
        : reader \in ReaderOutcomes }

\* _extract_text_other_formats(path, limit, ext): a reader that fails gives ""
extract_text_other_formats(file, reader, limit) ==
    IF file.ext \in {".docx", ".ppt", ".pptx", ".txt", ".md"} /\ reader = "ok"
    THEN text_prefix(text_strip(file.text), limit)
    ELSE <<>>

\* lines 704-717: the other types
extract_other(file, row, tr, limit) ==
    UNION {
        { Outcome(FALSE,
                  scored([NewResult EXCEPT !.text = text,
                                           !.method = "direct",
                                           !.confidence = IF text # <<>> THEN other_confidence ELSE 0]),
                  row, [tr EXCEPT !.reader = reader])
          : text \in {extract_text_other_formats(file, reader, limit)} }
        : reader \in IF file.ext \in {".docx", ".ppt", ".pptx", ".txt", ".md"}
                     THEN {"ok", "raises"} ELSE {"ok"} }

\* lines 516-733: no cached row was returned
extract_uncached(file, config, file_hash, row, tr, limit) ==
    IF file.ext \in image_types THEN extract_image(config, file_hash, row, tr, limit)
    ELSE IF file.ext = ".pdf" THEN extract_pdf(file, config, file_hash, row, tr, limit)
    ELSE extract_other(file, row, tr, limit)

\* what opening, reading or writing the cache database may do
IOs == {"ok", "raises"}

(* extract_text_preview_enhanced(path, limit): the outcomes of one call on the
   file, with row the row of the cache under the hash of the file.  OCRCache()
   (line 492) and cache.get (line 504) are called outside any try. *)
extract_text_preview_enhanced(file, config, row, limit) ==
    UNION {
        IF cache_open = "raises"
        THEN {Outcome(TRUE, NewResult, row, [NoTrace EXCEPT !.cache_open = "raises"])}
        ELSE UNION {
            LET file_hash == IF hashed = "ok" THEN "hash" ELSE None
                tr == [NoTrace EXCEPT !.cache_open = "ok", !.file_hash = hashed]
            IN  IF file_hash # None /\ file.ext \in cached_types
                THEN UNION {
                        IF cache_get = "raises"
                        THEN {Outcome(TRUE, NewResult, row, [tr EXCEPT !.cache_get = "raises"])}
                        ELSE IF row # NoCache
                        THEN {Outcome(FALSE, cache_hit(row, limit), row, [tr EXCEPT !.cache_get = "hit"])}
                        ELSE extract_uncached(file, config, file_hash, row,
                                              [tr EXCEPT !.cache_get = "miss"], limit)
                        : cache_get \in IOs }
                ELSE extract_uncached(file, config, file_hash, row, tr, limit)
            : hashed \in IOs }
        : cache_open \in IOs }

(* The extraction of one file, called again and again (specification SpecExtract) *)

\* how many times the file is extracted
MaxExtractCalls == 3

\* what the readers find in the file, before strip: nothing, blanks, a few
\* characters, a few more, more than the limit, 40% garbage, two words far
\* apart, a padded paragraph
DirectTexts ==
    { <<>>,
      << <<" ", 40>> >>,
      << <<"a", 40>> >>,
      << <<"a", 60>> >>,
      << <<"a", 1100>> >>,
      << <<"a", 300>>, <<"#", 200>> >>,
      << <<"a", 40>>, <<" ", 1100>>, <<"a", 40>> >>,
      << <<" ", 5>>, <<"a", 150>>, <<" ", 5>> >> }

\* one page, or more pages than a document sent to the Vision LLM may have
PageCounts == {1, 12}

ExtractFile(ext, text, page_count, has_keyword, size_kb) ==
    [ext |-> ext, text |-> text, page_count |-> page_count,
     has_keyword |-> has_keyword, size_kb |-> size_kb]

\* a PDF has pages and may be an important document; a PDF without pages has no text
PdfFiles ==
    { ExtractFile(".pdf", text, page_count, important, 500) :
        text \in DirectTexts, page_count \in PageCounts, important \in BOOLEAN }
    \cup { ExtractFile(".pdf", <<>>, 0, important, 500) : important \in BOOLEAN }
    \cup { ExtractFile(".pdf", <<>>, 1, TRUE, 50) }

\* the other files: documents, an image, a type no reader knows
OtherFiles ==
    { ExtractFile(ext, text, 0, FALSE, 500) :
        ext \in {".docx", ".pptx", ".txt", ".md"}, text \in DirectTexts }
    \cup { ExtractFile(".png", <<>>, 0, FALSE, 500), ExtractFile(".xyz", << <<"a", 40>> >>, 0, FALSE, 500) }

ExtractFiles == PdfFiles \cup OtherFiles

\* OCR_CONFIG: the two switches
OcrConfigs == [enable_vision_llm : BOOLEAN, enable_rapidocr : BOOLEAN]

InitExtract ==
    /\ \E file \in ExtractFiles, config \in OcrConfigs :
          ex = [called |-> FALSE, n |-> 0, file |-> file, config |-> config,
                raised |-> FALSE, result |-> NewResult, trace |-> NoTrace, row |-> NoCache]
    /\ cache = NoCache
    /\ OffstageIdle
    /\ platform = "posix"
    /\ fs = BaseFS /\ fs0 = fs /\ mv = NoMove /\ calls = 0 /\ learned = NoLookup
    /\ pc = "idle" /\ st = NoState /\ pendingDir = NoPending /\ records = <<>> /\ runs = 0
    /\ vphase = "off" /\ vplan = NoPlan /\ vin = NoPlan

\* one call extract_text_preview_enhanced(path); ex.row is the cache row it found
ExtractTextPreviewEnhanced ==
    /\ ex.n < MaxExtractCalls
    /\ \E o \in extract_text_preview_enhanced(ex.file, ex.config, cache, default_limit) :
          /\ ex' = [ex EXCEPT !.called = TRUE, !.n = @ + 1, !.raised = o.raised,
                              !.result = o.result, !.trace = o.trace, !.row = cache]
          /\ cache' = o.cache
    /\ UNCHANGED <<platform, vphase, vplan, vin, fs, fs0, mv, calls, pc, st, pendingDir,
                   records, runs, learned, offstage>>

NextExtract == ExtractTextPreviewEnhanced

SpecExtract == InitExtract /\ [][NextExtract]_vars

-----------------------------------------------------------------------------
(* calculate_quality_score called directly (specification SpecQuality) *)

\* the pipeline is at rest
PipelineIdle ==
    /\ platform = "posix"
    /\ fs = BaseFS /\ fs0 = fs /\ mv = NoMove /\ calls = 0 /\ learned = NoLookup
    /\ pc = "idle" /\ st = NoState /\ pendingDir = NoPending /\ records = <<>> /\ runs = 0
    /\ vphase = "off" /\ vplan = NoPlan /\ vin = NoPlan
    /\ ex = NoExtraction /\ cache = NoCache

\* the lengths of the stripped texts: around the two thresholds, and well away from them
QualityLengths == {10, 20, 49, 50, 99, 100, 200}

\* how many garbage characters a text of the length has: none, all, and the
\* counts at and just above a tenth, three tenths and half of the length
GarbageCounts(length) ==
    { 0, length \div 10, length \div 10 + 1, (3 * length) \div 10, (3 * length) \div 10 + 1,
      length \div 2, length \div 2 + 1, length }

\* a text of normal characters followed by garbage
MixedText(normal, garbage) ==
    (IF normal > 0 THEN << <<"a", normal>> >> ELSE <<>>)
    \o (IF garbage > 0 THEN << <<"#", garbage>> >> ELSE <<>>)

\* the texts scored: empty, blank, mixed, mixed with blanks around, with punctuation
QualityTexts ==
    { <<>>, << <<" ", 40>> >> }
    \cup UNION { { MixedText(length - garbage, garbage) : garbage \in GarbageCounts(length) }
                 : length \in QualityLengths }
    \cup UNION { { << <<" ", 3>> >> \o MixedText(length - garbage, garbage) \o << <<" ", 3>> >>
                   : garbage \in GarbageCounts(length) \ {0} }
                 : length \in {49, 100} }
    \cup { << <<"a", 60>>, <<",", 20>>, <<" ", 10>>, <<"a", 30>> >> }

\* the confidences, in hundredths: none reported, and around 0.5 and 0.7
QualityConfidences == {0, 30, 49, 50, 69, 70, 95, 100}

InitQuality ==
    /\ \E text \in QualityTexts, confidence \in QualityConfidences :
          qs = [called |-> FALSE, text |-> text, confidence |-> confidence,
                quality_score |-> 0, needs_review |-> FALSE]
    /\ PipelineIdle /\ oc = NoCheck /\ ui = NoApproval /\ WatcherOff /\ batch = NoBatch

\* one call calculate_quality_score(text, confidence)
CalculateQualityScore ==
    /\ ~qs.called
    /\ LET r == calculate_quality_score(qs.text, qs.confidence)
       IN  qs' = [qs EXCEPT !.called = TRUE, !.quality_score = r.quality_score,
                            !.needs_review = r.needs_review]
    /\ UNCHANGED <<pipeline, oc, ui, watcher, batch>>

NextQuality == CalculateQualityScore

SpecQuality == InitQuality /\ [][NextQuality]_vars

-----------------------------------------------------------------------------
(* should_use_ocr called directly (specification SpecOcr) *)

\* how many spaces a text starts with or holds inside: around nine times its letters
SpaceCounts == {0, 225, 890, 899, 900, 901, 950}

\* how many letters a text has (the test has "text" * 25)
LetterCounts == {25, 100, 104, 150}

\* " " * spaces + "a" * letters
SpacesThenLetters(spaces, letters) ==
    IF spaces = 0 THEN << <<"a", letters>> >> ELSE << <<" ", spaces>>, <<"a", letters>> >>

\* "a" * (letters - 1) + " " * spaces + "a"
SpacesInside(spaces, letters) ==
    IF spaces = 0 THEN << <<"a", letters>> >>
    ELSE << <<"a", letters - 1>>, <<" ", spaces>>, <<"a", 1>> >>

OcrTestTexts ==
    { SpacesThenLetters(spaces, letters) : spaces \in SpaceCounts, letters \in LetterCounts }
    \cup { SpacesInside(spaces, letters) : spaces \in SpaceCounts, letters \in LetterCounts }
    \cup { <<>>, << <<" ", 900>> >> }

\* page_count: 0 for a text that did not come out of a PDF
OcrPageCounts == {0, 1, 2, 5}

InitOcr ==
    /\ \E extracted_text \in OcrTestTexts, page_count \in OcrPageCounts :
          oc = [called |-> FALSE, extracted_text |-> extracted_text, page_count |-> page_count,
                needs |-> FALSE, reason |-> "none"]
    /\ PipelineIdle /\ qs = NoScore /\ ui = NoApproval /\ WatcherOff /\ batch = NoBatch

\* one call should_use_ocr(extracted_text, page_count)
ShouldUseOcr ==
    /\ ~oc.called
    /\ \E r \in {should_use_ocr(oc.extracted_text, oc.page_count)} :
          oc' = [oc EXCEPT !.called = TRUE, !.needs = r.needs, !.reason = r.reason]
    /\ UNCHANGED <<pipeline, qs, ui, watcher, batch>>

NextOcr == ShouldUseOcr

SpecOcr == InitOcr /\ [][NextOcr]_vars

-----------------------------------------------------------------------------

(* watch_inbox.py: the observer thread puts paths into a Queue, one worker   *)
(* thread takes them out, waits for each file to be stable and runs it       *)
(* through the pipeline; the main thread waits for Ctrl+C.  Times are in     *)
(* tenths of a second.                                                       *)

\* the parameters of wait_for_file_stability: the timeout the worker passes,
\* the default pause between two polls, the default number of equal readings
stability_timeout == 100
check_interval == 5
min_stable_count == 3

\* supported_extensions of should_process_file
supported_extensions ==
    { <<".","p","d","f">>, <<".","d","o","c","x">>, <<".","d","o","c">>, <<".","t","x","t">>,
      <<".","m","d">>, <<".","x","l","s","x">>, <<".","x","l","s">>, <<".","p","p","t">>,
      <<".","p","p","t","x">>, <<".","p","n","g">>, <<".","j","p","g">>, <<".","j","p","e","g">>,
      <<".","g","i","f">> }

\* should_process_file(path): a file, not hidden, not temporary, not a lock
\* file, of a supported extension
should_process_file(path) ==
    /\ path.is_file
    /\ ~startswith(path.name, <<".">>)
    /\ ~(startswith(path.name, <<"~","$">>) \/ endswith(path.name, <<".","t","m","p">>))
    /\ ~startswith(path.name, <<"~","l","o","c","k",".">>)
    /\ lower(suffix(path.name)) \in supported_extensions

\* the locals of wait_for_file_stability when it is called, with what it
\* returned (none while it runs) and, beside them, run: how many of the latest
\* polls in a row read one and the same size other than zero
NewWait ==
    [last_size |-> -1, stable_count |-> 0, elapsed |-> 0, returned |-> "none", run |-> 0]

\* poll that sleeps only after reading an unchanged size
poll_without_sleep(s, reading, pause) ==
    IF s.elapsed >= stability_timeout THEN [s EXCEPT !.returned = "timeout"]
    ELSE IF reading.kind = "exists_raises" THEN [s EXCEPT !.returned = "raised"]
    ELSE IF reading.kind = "gone" THEN [s EXCEPT !.returned = "gone"]
    ELSE IF reading.kind = "not_file" THEN [s EXCEPT !.returned = "not_file"]
    ELSE IF reading.kind = "oserror" \/ reading.st_size = 0
    THEN [s EXCEPT !.run = 0]
    ELSE IF reading.st_size = s.last_size
    THEN IF s.stable_count + 1 >= min_stable_count
         THEN [s EXCEPT !.stable_count = @ + 1, !.run = @ + 1, !.returned = "stable"]
         ELSE [s EXCEPT !.stable_count = @ + 1, !.run = @ + 1, !.elapsed = @ + pause]
    ELSE [s EXCEPT !.stable_count = 0, !.last_size = reading.st_size, !.run = 1]

(* One turn of the loop of wait_for_file_stability (lines 75-109): the time is
   up, or the file is looked at: path.exists() raises, the file is gone, it is
   not a regular file, stat() raises OSError, or stat() gives a size.  A turn
   that does not return sleeps: pause is the time to the next turn. *)
poll(s, reading, pause) ==
    IF s.elapsed >= stability_timeout THEN [s EXCEPT !.returned = "timeout"]
    ELSE IF reading.kind = "exists_raises" THEN [s EXCEPT !.returned = "raised"]
    ELSE IF reading.kind = "gone" THEN [s EXCEPT !.returned = "gone"]
    ELSE IF reading.kind = "not_file" THEN [s EXCEPT !.returned = "not_file"]
    ELSE IF reading.kind = "oserror" \/ reading.st_size = 0
    THEN [s EXCEPT !.elapsed = @ + pause, !.run = 0]
    ELSE IF reading.st_size = s.last_size
    THEN IF s.stable_count + 1 >= min_stable_count
         THEN [s EXCEPT !.stable_count = @ + 1, !.run = @ + 1, !.returned = "stable"]
         ELSE [s EXCEPT !.stable_count = @ + 1, !.run = @ + 1, !.elapsed = @ + pause]
    ELSE [s EXCEPT !.stable_count = 0, !.last_size = reading.st_size, !.run = 1, !.elapsed = @ + pause]

\* what a poll may find: the answers of exists(), is_file() and stat(), the
\* sizes among them
Readings ==
    { [kind |-> k, st_size |-> 0] : k \in {"exists_raises", "gone", "not_file", "oserror"} }
    \cup { [kind |-> "size", st_size |-> n] : n \in {0, 1, 2} }

\* how long a turn that sleeps takes: the sleep, or the sleep and as much again
Pauses(reading) ==
    IF reading.kind \in {"oserror", "size"} THEN {check_interval, 2 * check_interval}
    ELSE {check_interval}

\* how many paths the handler puts
MaxEvents == 2

\* main starting a second worker thread on the same queue
TwoWorkers == {"worker", "worker2"}

\* the worker threads main starts
Workers == {"worker"}

\* a worker thread at the head of its loop, with no item
NewWorker == [pc |-> "loop", file_path |-> 0, wait |-> NewWait, killed_in |-> "none"]

\* the paths of the events: a document, a document in capitals, a directory, a
\* hidden file, two temporary files, a lock file, a program
EventPaths ==
    { [name |-> <<"a",".","p","d","f">>, is_file |-> TRUE],
      [name |-> <<"B",".","P","D","F">>, is_file |-> TRUE],
      [name |-> <<"a",".","p","d","f">>, is_file |-> FALSE],
      [name |-> <<".","a",".","p","d","f">>, is_file |-> TRUE],
      [name |-> <<"~","$","a",".","d","o","c","x">>, is_file |-> TRUE],
      [name |-> <<"a",".","t","m","p">>, is_file |-> TRUE],
      [name |-> <<"~","l","o","c","k",".","a",".","d","o","c">>, is_file |-> TRUE],
      [name |-> <<"a",".","e","x","e">>, is_file |-> TRUE] }

\* the events of the observer: whether watchdog says it is a directory, and the path
Events == [is_directory : BOOLEAN, path : EventPaths]

\* after observer.start() (line 340): the queue is empty, the worker runs, the
\* main thread sleeps
InitWatch ==
    /\ file_queue = [items |-> <<>>, unfinished_tasks |-> 0]
    /\ stop_event = FALSE
    /\ worker = [w \in Workers |-> NewWorker]
    /\ main = "running"
    /\ puts = 0 /\ handed = <<>> /\ fate = <<>>
    /\ PipelineIdle /\ qs = NoScore /\ oc = NoCheck /\ ui = NoApproval /\ batch = NoBatch

\* file_queue.put(path); the i-th path put is written i
put(q) == [q EXCEPT !.items = Append(@, puts + 1), !.unfinished_tasks = @ + 1]

\* file_queue.task_done()
task_done(q) == [q EXCEPT !.unfinished_tasks = @ - 1]

\* the observer thread delivers events until observer.stop()
Observing == main \in {"running", "interrupted"}

\* the events whose path the handler puts (lines 186-192, 198-204): not of a
\* directory, and should_process_file(path)
Accepted == { event \in Events : ~event.is_directory /\ should_process_file(event.path) }

\* InboxHandler.on_created and on_moved (lines 184-206): the path of the event
\* (src_path of a creation, dest_path of a move) is put; an event that is
\* filtered changes nothing
on_event(event) ==
    /\ event \in Accepted
    /\ file_queue' = put(file_queue)
    /\ puts' = puts + 1
    /\ fate' = Append(fate, "queued")

OnCreated ==
    /\ Observing /\ puts < MaxEvents
    /\ \E event \in Events : on_event(event)
    /\ UNCHANGED <<stop_event, worker, main, handed, pipeline, qs, oc, ui, batch>>

OnMoved ==
    /\ Observing /\ puts < MaxEvents
    /\ \E event \in Events : on_event(event)
    /\ UNCHANGED <<stop_event, worker, main, handed, pipeline, qs, oc, ui, batch>>

\* the thread w runs: the process has not exited and the thread has not ended
Running(w) == main # "exited" /\ worker[w].pc \notin {"stopped", "killed"}

\* line 230: while not stop_event.is_set()
WorkerLoop(w) ==
    /\ Running(w) /\ worker[w].pc = "loop"
    /\ worker' = [worker EXCEPT ![w].pc = IF stop_event THEN "stopped" ELSE "get"]
    /\ UNCHANGED <<file_queue, stop_event, main, puts, handed, fate, pipeline, qs, oc, ui, batch>>

\* lines 233-244: file_queue.get(timeout=1.0) gives the oldest path and
\* wait_for_file_stability is entered, or the queue stays empty and Empty is raised
WorkerGet(w) ==
    /\ Running(w) /\ worker[w].pc = "get"
    /\ IF file_queue.items = <<>>
       THEN /\ worker' = [worker EXCEPT ![w].pc = "loop"]
            /\ UNCHANGED <<file_queue, fate>>
       ELSE /\ worker' = [worker EXCEPT ![w] = [NewWorker EXCEPT !.pc = "stability",
                                                                !.file_path = Head(file_queue.items)]]
            /\ file_queue' = [file_queue EXCEPT !.items = Tail(@)]
            /\ fate' = [fate EXCEPT ![Head(file_queue.items)] = "dequeued"]
    /\ UNCHANGED <<stop_event, main, puts, handed, pipeline, qs, oc, ui, batch>>

\* what is left of a wait that has returned: its result, and for True the run it ended on
returned_wait(s) ==
    [NewWait EXCEPT !.returned = s.returned, !.run = IF s.returned = "stable" THEN s.run ELSE 0]

(* lines 244-250 and 285-289: one turn of wait_for_file_stability.  When it
   returns True the file goes to the pipeline; when it returns False the item
   is marked done and dropped; when it raises, the handler of the loop logs it. *)
after_wait(w, s) ==
    IF s.returned = "none"
    THEN /\ worker' = [worker EXCEPT ![w].wait = s]
         /\ UNCHANGED <<file_queue, handed, fate>>
    ELSE IF s.returned = "stable"
    THEN /\ worker' = [worker EXCEPT ![w].wait = returned_wait(s), ![w].pc = "process"]
         /\ handed' = Append(handed, worker[w].file_path)
         /\ fate' = [fate EXCEPT ![worker[w].file_path] = "in_pipeline"]
         /\ UNCHANGED file_queue
    ELSE /\ worker' = [worker EXCEPT ![w].wait = returned_wait(s), ![w].pc = "loop"]
         /\ file_queue' = IF s.returned = "raised" THEN file_queue ELSE task_done(file_queue)
         /\ fate' = [fate EXCEPT ![worker[w].file_path] = "dropped"]
         /\ UNCHANGED handed

WorkerPoll(w) ==
    /\ Running(w) /\ worker[w].pc = "stability"
    /\ \E reading \in Readings :
          \E pause \in Pauses(reading) : after_wait(w, poll(worker[w].wait, reading, pause))
    /\ UNCHANGED <<stop_event, main, puts, pipeline, qs, oc, ui, batch>>

\* what workflow.process_file may do: return the record, or raise
ProcessFileOutcomes == {"record", "raises"}

\* after_process of a worker whose try has no except: the exception ends the thread
after_process_unguarded(outcome) == IF outcome = "raises" THEN "crashed" ELSE "loop"

\* lines 253-283: where the thread goes when process_file has returned or raised
after_process(outcome) == "loop"

\* lines 253-283: workflow.process_file returns or raises; either way the item is marked done
WorkerProcess(w) ==
    /\ Running(w) /\ worker[w].pc = "process"
    /\ \E outcome \in ProcessFileOutcomes :
          /\ worker' = [worker EXCEPT ![w].pc = after_process(outcome), ![w].wait = NewWait]
          /\ fate' = [fate EXCEPT ![worker[w].file_path] = IF outcome = "raises" THEN "failed" ELSE "processed"]
    /\ file_queue' = task_done(file_queue)
    /\ UNCHANGED <<stop_event, main, puts, handed, pipeline, qs, oc, ui, batch>>

\* line 361: Ctrl+C reaches the main thread
KeyboardInterrupt ==
    /\ main = "running"
    /\ main' = "interrupted"
    /\ UNCHANGED <<file_queue, stop_event, worker, puts, handed, fate, pipeline, qs, oc, ui, batch>>

\* lines 366-367: observer.stop(); observer.join()
ObserverStop ==
    /\ main = "interrupted"
    /\ main' = "observer_stopped"
    /\ UNCHANGED <<file_queue, stop_event, worker, puts, handed, fate, pipeline, qs, oc, ui, batch>>

\* line 370: stop_event.set()
StopEventSet ==
    /\ main = "observer_stopped"
    /\ stop_event' = TRUE
    /\ main' = "joining"
    /\ UNCHANGED <<file_queue, worker, puts, handed, fate, pipeline, qs, oc, ui, batch>>

(* lines 371-375: worker.join(timeout=5.0) returns when the thread has ended
   or when five seconds have passed, and main returns; the worker is a daemon
   thread (line 332), so the exit of the process ends it where it stands *)
WorkerJoin ==
    /\ main = "joining"
    /\ main' = "exited"
    /\ worker' = [w \in Workers |->
                    IF worker[w].pc = "stopped" THEN worker[w]
                    ELSE [worker[w] EXCEPT !.pc = "killed", !.killed_in = worker[w].pc]]
    /\ UNCHANGED <<file_queue, stop_event, puts, handed, fate, pipeline, qs, oc, ui, batch>>

WorkerStep == \E w \in Workers : WorkerLoop(w) \/ WorkerGet(w) \/ WorkerPoll(w) \/ WorkerProcess(w)

NextWatch ==
    \/ OnCreated
    \/ OnMoved
    \/ \E w \in Workers : WorkerLoop(w)
    \/ \E w \in Workers : WorkerGet(w)
    \/ \E w \in Workers : WorkerPoll(w)
    \/ \E w \in Workers : WorkerProcess(w)
    \/ KeyboardInterrupt
    \/ ObserverStop
    \/ StopEventSet
    \/ WorkerJoin

SpecWatch == InitWatch /\ [][NextWatch]_vars

\* the threads are scheduled: a worker that can take a step takes one
SpecWatchFair == SpecWatch /\ WF_vars(WorkerStep)

-----------------------------------------------------------------------------
(* run_graph_once.py main: one batch run over the inbox (specification SpecBatch) *)

\* most files a batch run finds in the inbox
MaxFiles == 3

\* the steps of one file's pipeline in which something can fail
PipelineSteps == {"extraction", "classification", "pending_artifact", "move"}

\* what one file meets in its pipeline: the steps that fail, whether its plan
\* is valid, whether its extraction asks for review
FileCases == [fails : SUBSET PipelineSteps, plan_valid : BOOLEAN, needs_review : BOOLEAN]

BatchRecord(decision, execution_status) ==
    [raised |-> FALSE, decision |-> decision, execution_status |-> execution_status]

\* the exception leaves app.invoke and process_file, which catch nothing
BatchRaised == [raised |-> TRUE, decision |-> "none", execution_status |-> "none"]

\* JanitorWorkflow.process_file on one file: the record it returns, or the
\* exception that leaves it.  extract_text_preview_enhanced is called outside
\* any try; a failed analysis is caught and gives an invalid plan; the gate
\* rejects an invalid plan, approves when auto_approve is set and the
\* extraction does not ask for review, and writes the pending artifact outside
\* any try otherwise; safe_move_file reports a failed move in its result.
batch_process_file(file_case, is_dry_run, is_auto_approve) ==
    IF "extraction" \in file_case.fails THEN BatchRaised
    ELSE IF "classification" \in file_case.fails \/ ~file_case.plan_valid
    THEN BatchRecord("auto_reject_invalid", "none")
    ELSE IF is_auto_approve /\ ~file_case.needs_review
    THEN IF is_dry_run THEN BatchRecord("approved", "dry_run")
         ELSE IF "move" \in file_case.fails THEN BatchRecord("approved", "failed")
         ELSE BatchRecord("approved", "success")
    ELSE IF "pending_artifact" \in file_case.fails THEN BatchRaised
    ELSE BatchRecord("pending", "none")

NoLog == [written |-> FALSE, lines |-> <<>>]

\* main has discovered a non-empty list of files and stands before its loop
InitBatch ==
    /\ batch \in [pc : {"loop"}, files : 1..MaxFiles, i : {0}, dry_run : BOOLEAN,
                  auto_approve : BOOLEAN, records : {<<>>}, log : {NoLog}]
    /\ PipelineIdle /\ qs = NoScore /\ oc = NoCheck /\ ui = NoApproval /\ WatcherOff

\* for i, fp in enumerate(files, 1): the next file, or the end of the loop
BatchLoop ==
    /\ batch.pc = "loop"
    /\ batch' = IF batch.i < batch.files
                THEN [batch EXCEPT !.pc = "process_file", !.i = @ + 1]
                ELSE [batch EXCEPT !.pc = "save_log"]
    /\ UNCHANGED <<pipeline, qs, oc, ui, watcher>>

\* after_call: the record is appended, or the exception leaves the loop and main
after_batch_call(b, r) ==
    IF r.raised THEN [b EXCEPT !.pc = "raised"]
    ELSE [b EXCEPT !.pc = "loop", !.records = Append(@, r)]

\* record = workflow.process_file(...); records.append(record)
BatchProcessFile ==
    /\ batch.pc = "process_file"
    /\ \E file_case \in FileCases :
          batch' = after_batch_call(batch, batch_process_file(file_case, batch.dry_run, batch.auto_approve))
    /\ UNCHANGED <<pipeline, qs, oc, ui, watcher>>

\* the log of the run: one line per record, written after the loop
BatchSaveLog ==
    /\ batch.pc = "save_log"
    /\ batch' = [batch EXCEPT !.pc = "done", !.log = [written |-> TRUE, lines |-> batch.records]]
    /\ UNCHANGED <<pipeline, qs, oc, ui, watcher>>

NextBatch ==
    \/ BatchLoop
    \/ BatchProcessFile
    \/ BatchSaveLog

SpecBatch == InitBatch /\ [][NextBatch]_vars

-----------------------------------------------------------------------------
(* app.py: the approval UI resolves the artifacts the pipeline leaves.  A run
   is taken up at the gate, in any state the earlier nodes can hand to it; when
   it has ended, the user approves the artifacts in the pending directory
   (specification SpecResolve). *)

\* most approve_file calls of one session
MaxApprovals == 2

\* the states in which a run reaches the gate: the initial state of
\* process_file taken through extract_preview, llm_analyze, build_plan and
\* validate
StatesAtGate(pf) ==
    UNION { LET s0 == [file_path |-> fp, dry_run |-> dry_run, auto_approve |-> auto_approve,
                       preference_repo |-> repo]
                s2 == node_llm_analyze(node_extract_preview(s0, result), a)
                lookups == IF Has(s2, "error") THEN { <<>> }
                           ELSE UNION { learned_folder_lookup(s2, db_ok) : db_ok \in BOOLEAN }
            IN  { node_validate(node_build_plan(s2, learned_folder), pf) : learned_folder \in lookups }
          : fp \in InboxFiles, dry_run \in BOOLEAN, auto_approve \in BOOLEAN,
            repo \in PreferenceStores, result \in ExtractionResults, a \in Analyses }

NewApproval ==
    [called |-> FALSE, n |-> 0, json_file |-> NoPath, item |-> <<>>, ok |-> FALSE,
     message |-> "none", src |-> NoPath, dst |-> NoPath, status |-> "none", final_dst |-> NoPath]

InitResolve ==
    /\ platform \in Platforms
    /\ fs \in PipelineInitFS
    /\ fs0 = fs
    /\ pc = "human_review" /\ st \in StatesAtGate(platform)
    /\ pendingDir = NoPending /\ records = <<>> /\ runs = 1
    /\ vphase = "off" /\ vplan = NoPlan /\ vin = NoPlan
    /\ mv = NoMove /\ calls = 0 /\ learned = NoLookup /\ ex = NoExtraction /\ cache = NoCache
    /\ qs = NoScore /\ oc = NoCheck /\ ui = NewApproval /\ WatcherOff /\ batch = NoBatch

\* the pending directory without one artifact
Unlinked(pdir, json_file) == [q \in DOMAIN pdir \ {json_file} |-> pdir[q]]

\* what the system calls under approve_file do: those of safe_move_file,
\* json_file.unlink() and the append to logs/ui_events.jsonl; one failure per call
ApprovalIOs ==
    { io \in [move : IOOutcomes, unlink : {"ok", "error"}, log : {"ok", "error"}] :
        Cardinality({k \in {"stat", "mkdir", "move"} : io.move[k] # "ok"})
          + (IF io.unlink = "ok" THEN 0 ELSE 1) + (IF io.log = "ok" THEN 0 ELSE 1) <= 1 }

\* approve_file(pending_item, archive_root) for the artifact at json_file: the
\* success flag, the file system and the pending directory after the call.  An
\* exception of unlink() or log_event is caught by the except of approve_file,
\* which returns failure; save_approval_to_memory catches its own.
approve_file(f, pdir, json_file, io, pf) ==
    LET pending_item == pdir[json_file]
        src == pending_item.original_file
        dst == PathJoin(PathJoin(archive_root, pending_item.dest_dir, pf), pending_item.new_name, pf)
        moved == safe_move_file(f, src, dst, io.move)
        answer(ok, message, f2, pdir2, status) ==
            [ok |-> ok, message |-> message, fs |-> f2, pending |-> pdir2, src |-> src,
             dst |-> dst, status |-> status,
             final_dst |-> IF status = "success" THEN moved.result.dst ELSE NoPath]
    IN  IF ~exists(f, src) THEN answer(FALSE, "source_missing", f, pdir, "not_called")
        ELSE IF moved.result.status # "success"
        THEN answer(FALSE, "move_failed", moved.fs, pdir, "failed")
        ELSE IF io.unlink = "error"
        THEN answer(FALSE, "exception", moved.fs, pdir, "success")
        ELSE IF io.log = "error"
        THEN answer(FALSE, "exception", moved.fs, Unlinked(pdir, json_file), "success")
        ELSE answer(TRUE, "moved", moved.fs, Unlinked(pdir, json_file), "success")

\* the user clicks approve on one of the pending items
ApproveFile ==
    /\ pc = "idle" /\ ui.n < MaxApprovals
    /\ \E json_file \in DOMAIN pendingDir, io \in ApprovalIOs :
          \E r \in {approve_file(fs, pendingDir, json_file, io, platform)} :
             /\ fs' = r.fs
             /\ pendingDir' = r.pending
             /\ ui' = [called |-> TRUE, n |-> ui.n + 1, json_file |-> json_file,
                       item |-> pendingDir[json_file], ok |-> r.ok,
                       message |-> r.message, src |-> r.src, dst |-> r.dst,
                       status |-> r.status, final_dst |-> r.final_dst]
    /\ UNCHANGED <<platform, vphase, vplan, vin, fs0, mv, calls, pc, st, records, runs, learned, ex, cache,
                   qs, oc, watcher, batch>>

\* the source of a pending item leaves the inbox while the item waits
SourceRemoved ==
    /\ pc = "idle"
    /\ \E json_file \in DOMAIN pendingDir :
          LET src == Resolve(pendingDir[json_file].original_file)
          IN  /\ src \in DOMAIN fs
              /\ fs' = [q \in DOMAIN fs \ {src} |-> fs[q]]
    /\ UNCHANGED <<platform, vphase, vplan, vin, fs0, mv, calls, pc, st, pendingDir, records, runs,
                   learned, ex, cache, offstage>>

NextResolve ==
    \/ NodeHumanReview
    \/ NodeApply
    \/ NodeSkip
    \/ Return
    \/ Propagate
    \/ ApproveFile
    \/ SourceRemoved

SpecResolve == InitResolve /\ [][NextResolve]_vars

-----------------------------------------------------------------------------
(* watch_inbox.py and run_graph_once.py together: the handler puts the path of
   each event into the queue, the worker takes the paths one at a time and runs
   the workflow on each; the pending directory outlives the runs
   (specification SpecInbox). *)

\* the states in which a run on file_path reaches the gate
StatesAtGateFor(file_path, pf) == { s \in StatesAtGate(pf) : s.file_path = file_path }

InitInbox ==
    /\ platform \in Platforms
    /\ fs \in PipelineInitFS
    /\ fs0 = fs
    /\ pc = "idle" /\ st = NoState /\ pendingDir = NoPending /\ records = <<>> /\ runs = 0
    /\ vphase = "off" /\ vplan = NoPlan /\ vin = NoPlan
    /\ mv = NoMove /\ calls = 0 /\ learned = NoLookup /\ ex = NoExtraction /\ cache = NoCache
    /\ qs = NoScore /\ oc = NoCheck /\ ui = NoApproval /\ batch = NoBatch
    /\ file_queue = [items |-> <<>>, unfinished_tasks |-> 0]
    /\ stop_event = FALSE /\ worker = [w \in Workers |-> NewWorker] /\ main = "running"
    /\ puts = 0 /\ handed = <<>> /\ fate = <<>>

\* InboxHandler.on_created and on_moved (lines 184-206) for an event on path:
\* the path is put when should_process_file accepts it, whatever the queue or
\* the pending directory hold
put_path(path) ==
    /\ should_process_file([name |-> name(path), is_file |-> is_file(fs, path)])
    /\ file_queue' = [file_queue EXCEPT !.items = Append(@, path), !.unfinished_tasks = @ + 1]
    /\ puts' = puts + 1
    /\ UNCHANGED <<stop_event, worker, main, handed, fate, pipeline, qs, oc, ui, batch>>

InboxCreated == puts < MaxEvents /\ \E path \in InboxFiles : put_path(path)

InboxMoved == puts < MaxEvents /\ \E path \in InboxFiles : put_path(path)

(* worker_thread, lines 233-258: the oldest path is taken; a file that is gone
   fails wait_for_file_stability and is dropped with task_done; a file that is
   there goes to workflow.process_file, whose first four nodes bring it to the
   gate.  The flags and what the readers and the model answer are those of
   this run. *)
WorkerTakesFile ==
    /\ pc = "idle" /\ file_queue.items # <<>>
    /\ LET file_path == Head(file_queue.items)
       IN  IF ~is_file(fs, file_path)
           THEN /\ file_queue' = [items |-> Tail(file_queue.items),
                                  unfinished_tasks |-> file_queue.unfinished_tasks - 1]
                /\ UNCHANGED <<pc, st, runs, fs0>>
           ELSE /\ file_queue' = [file_queue EXCEPT !.items = Tail(@)]
                /\ st' \in StatesAtGateFor(file_path, platform)
                /\ pc' = "human_review"
                /\ runs' = runs + 1
                /\ fs0' = fs
    /\ UNCHANGED <<fs, pendingDir, records, platform, vphase, vplan, vin, mv, calls, learned, ex,
                   cache, qs, oc, ui, stop_event, worker, main, puts, handed, fate, batch>>

\* lines 253-283: process_file has returned its record, of which the worker
\* prints a summary, or raised; task_done
WorkerDone ==
    /\ pc \in {"END", "raised"}
    /\ st' = NoState
    /\ pc' = "idle"
    /\ file_queue' = [file_queue EXCEPT !.unfinished_tasks = @ - 1]
    /\ UNCHANGED <<fs, fs0, pendingDir, records, runs, platform, vphase, vplan, vin, mv, calls, learned, ex,
                   cache, qs, oc, ui, stop_event, worker, main, puts, handed, fate, batch>>

NextInbox ==
    \/ InboxCreated
    \/ InboxMoved
    \/ WorkerTakesFile
    \/ NodeHumanReview
    \/ NodeApply
    \/ NodeSkip
    \/ WorkerDone

SpecInbox == InitInbox /\ [][NextInbox]_vars

-----------------------------------------------------------------------------
(* Properties of the workflow (specification Spec) *)

\* the gate has returned in the run in progress
GateReturned == pc \in {"apply", "skip", "END"}

\* the gate has run in the run in progress (it returned or it raised)
GateRan == pc \in {"apply", "skip", "END", "raised"}

NeedsReview == Get(Get(st, "extraction_metadata", [x |-> 0]), "needs_review", FALSE)

\* the artifact the run in progress would write
RunArtifact == pending_path(st.file_path, runs)

\* C1: a plan that reaches the approval gate with is_valid = false gets the
\* decision auto_reject_invalid with approved = false, whatever auto_approve and
\* needs_review are; no pending artifact is written, the run goes to skip and
\* never to apply, and the file system is left as it was.
C1_InvalidPlanAutoRejected ==
    (GateRan /\ ~st.plan.is_valid) =>
        /\ pc \in {"skip", "END"}
        /\ st.decision = "auto_reject_invalid"
        /\ st.approved = FALSE
        /\ ~Has(st, "pending_file")
        /\ RunArtifact \notin DOMAIN pendingDir
        /\ fs = fs0
        /\ (pc = "END" => st.record.decision = "auto_reject_invalid")

C1_Witness ==
    /\ pc = "END" /\ ~st.plan.is_valid
    /\ st.auto_approve /\ ~NeedsReview
    /\ st.decision = "auto_reject_invalid"

\* C2: a valid plan whose extraction metadata has needs_review = true is never
\* approved, not even with auto_approve = true: when the gate returns the decision
\* is pending, the pending artifact is written and the file is not moved; when
\* writing the artifact fails the gate raises without a decision.
C2_NeedsReviewNeverApproved ==
    (GateRan /\ st.plan.is_valid /\ NeedsReview) =>
        /\ pc # "apply"
        /\ Get(st, "approved", FALSE) = FALSE
        /\ fs = fs0
        /\ GateReturned =>
              /\ st.decision = "pending"
              /\ st.pending_file = RunArtifact
              /\ RunArtifact \in DOMAIN pendingDir
              /\ pendingDir[RunArtifact].status = "pending"
              /\ pendingDir[RunArtifact].original_file = st.file_path
        /\ (pc = "raised" => ~Has(st, "decision"))

C2_Witness ==
    /\ pc = "END" /\ st.plan.is_valid /\ NeedsReview /\ st.auto_approve
    /\ st.decision = "pending"

\* C3: a plan that node_build_plan creates with is_valid = false because the
\* analysis step failed stays invalid: it ends with the decision
\* auto_reject_invalid and is never approved or moved.
C3_ErrorPlanStaysInvalid ==
    (GateReturned /\ Has(st, "error")) =>
        /\ ~st.plan.is_valid
        /\ st.decision = "auto_reject_invalid"
        /\ st.approved = FALSE
        /\ fs = fs0

\* C4: within a run the file system changes only after the gate has decided
\* approved on a plan that validation marked valid; for every other decision the
\* source file and the archive tree are unchanged and the run still ends with a
\* record that carries the decision.
C4_MovedOnlyWhenApproved ==
    /\ (pc # "idle" /\ fs # fs0) =>
          /\ pc = "END"
          /\ st.decision = "approved" /\ st.approved
          /\ st.plan.is_valid
    /\ (pc = "END" /\ st.decision # "approved") =>
          /\ st.decision \in {"auto_reject_invalid", "pending", "rejected", "skipped"}
          /\ fs = fs0
          /\ Has(st, "record")
          /\ st.record.decision = st.decision
          /\ st.record.approved = FALSE

C4_Witness ==
    /\ pc = "END" /\ st.decision = "pending" /\ ~st.dry_run /\ st.auto_approve = FALSE
    /\ Has(st, "record") /\ fs = fs0

\* C5: with dry_run = true a run never changes the file system (the source file
\* stays and nothing appears under the archive root), whatever the decision; an
\* approved plan then ends with execution_status "dry_run" and moved_to empty.
C5_DryRunTouchesNothing ==
    (pc # "idle" /\ st.dry_run) =>
        /\ fs = fs0
        /\ (pc = "END" /\ st.decision = "approved") =>
              /\ st.record.execution_status = "dry_run"
              /\ st.record.moved_to = NoPath

C5_Witness ==
    /\ pc = "END" /\ st.dry_run /\ st.decision = "approved"
    /\ st.record.execution_status = "dry_run"

-----------------------------------------------------------------------------
(* Properties of safe_move_file (specification SpecMove) *)

\* the candidate numbers that were unused before the call
FreeBefore == {i \in 1..max_attempts : ~exists(fs0, candidate(mv.dst, i))}

\* the name <stem>_<i><ext> written out for the destinations of the model, whose
\* names are all r.txt
Suffixed(dst, i) == Append(parent(dst), <<"r", "_">> \o str_int(i) \o <<".","t","x","t">>)

\* every path but the source is what it was before the call
OthersUntouched ==
    \A q \in DOMAIN fs0 \ {Resolve(mv.src)} : q \in DOMAIN fs /\ fs[q] = fs0[q]

\* the failures only the operating system can cause
OSErrors == {"unknown_error", "mkdir_failed", "move_failed"}

\* C6: a move of a regular file onto a destination path that already exists
\* succeeds (unless every candidate is taken or the operating system fails) with
\* conflict_resolved = true and the final destination <stem>_<i><ext>, i the
\* smallest integer >= 1 whose name is unused in that directory; no file that was
\* there is changed or overwritten and the source path no longer exists.
C6_CollisionGetsNextFreeSuffix ==
    (mv.called /\ exists(fs0, mv.dst) /\ is_file(fs0, mv.src)) =>
        /\ mv.result.status = "success" =>
              /\ mv.result.conflict_resolved
              /\ mv.result.original_dst = mv.dst
              /\ \E i \in FreeBefore :
                    /\ \A j \in FreeBefore : i <= j
                    /\ mv.result.dst = Suffixed(mv.dst, i)
              /\ OthersUntouched
              /\ ~exists(fs, mv.src)
              /\ fs[Resolve(mv.result.dst)] = fs0[Resolve(mv.src)]
        /\ mv.result.status = "failed" =>
              \/ mv.result.error \in OSErrors
              \/ FreeBefore = {} /\ mv.result.error = "collision_unresolved"

C6_Witness ==
    /\ mv.called /\ exists(fs0, mv.dst) /\ exists(fs0, candidate(mv.dst, 1))
    /\ mv.result.status = "success"
    /\ mv.result.dst = Suffixed(mv.dst, 2)

\* C7: a call whose source does not exist, or is not a regular file, returns status
\* "failed" with an error message and leaves the file system as it was: no
\* directory is created and nothing is moved or renamed.
C7_BadSourceFailsUntouched ==
    (mv.called /\ ~is_file(fs0, mv.src)) =>
        /\ mv.result.status = "failed"
        /\ mv.result.error # None
        /\ fs = fs0

C7_Witness ==
    /\ mv.called /\ exists(fs0, mv.src) /\ ~is_file(fs0, mv.src)
    /\ ~exists(fs0, parent(mv.dst))
    /\ mv.result.status = "failed"

\* C8: collision resolution terminates: no call tests more than max_attempts
\* candidates, and when the destination and the candidates _1 .. _100 all exist the
\* call returns "failed" with an error, the source still at its path and no
\* destination file changed.
C8_CollisionSearchBounded ==
    mv.called =>
        /\ mv.probes <= max_attempts
        /\ (is_file(fs0, mv.src) /\ exists(fs0, mv.dst) /\ FreeBefore = {}) =>
              /\ mv.result.status = "failed"
              /\ mv.result.error # None
              /\ mv.result.error # "unknown_error" =>
                    mv.result.error = "collision_unresolved" /\ mv.probes = max_attempts
              /\ fs = fs0
              /\ is_file(fs, mv.src)

C8_Witness ==
    /\ mv.called /\ is_file(fs0, mv.src) /\ exists(fs0, mv.dst) /\ FreeBefore = {}
    /\ mv.result.error = "collision_unresolved"
    /\ mv.probes = max_attempts

\* the source file is now at the reported destination and no longer at src
MovedToReportedDst ==
    /\ is_file(fs0, mv.src)
    /\ ~exists(fs, mv.src)
    /\ exists(fs, mv.result.dst)
    /\ fs[Resolve(mv.result.dst)] = fs0[Resolve(mv.src)]

\* C9: every call returns a result (no failure leaves the function as an
\* exception): status is "failed" exactly when the error field is set, and
\* "success" exactly when the file is now at the reported dst and no longer at src.
C9_ResultTellsWhatHappened ==
    mv.called =>
        /\ mv.result.status \in {"success", "failed"}
        /\ (mv.result.status = "failed") <=> (mv.result.error # None)
        /\ (mv.result.status = "success") <=> MovedToReportedDst

C9_Witness ==
    /\ mv.called /\ is_file(fs0, mv.src)
    /\ mv.result.status = "failed" /\ mv.result.error = "move_failed"
    /\ exists(fs, mv.src)

-----------------------------------------------------------------------------
(* Properties of validate_plan (specification SpecValidate) *)

\* the path has a ".." segment, the segments separated by "/" or by a backslash
HasDotDotSegment(d) ==
    LET segs == split(d, {SEP, BSL})
    IN  \E i \in 1..Len(segs) : segs[i] = <<".", ".">>

\* C10: validate_plan marks invalid, with a message about the unsafe destination,
\* every dest_dir that has a ".." path segment, whether the segments are separated
\* by "/" or by a backslash.
C10_TraversalRejected ==
    (vphase # "built" /\ HasDotDotSegment(vin.dest_dir)) =>
        /\ ~vplan.is_valid
        /\ \E i \in 1..Len(vplan.validation_msg) : vplan.validation_msg[i][1] = "unsafe_path"

\* the path is not relative to the archive root: it starts with a path separator
\* (a POSIX absolute path, a UNC-style doubled separator) or with a drive letter
NotRelative(d) ==
    \/ Len(d) >= 1 /\ d[1] \in {SEP, BSL}
    \/ Len(d) >= 2 /\ d[1] \in Letters /\ d[2] = ":"

\* C11: validate_plan marks invalid, with a message about the unsafe destination,
\* every dest_dir that is a POSIX absolute path, has a drive-letter prefix, is a
\* UNC-style path with a doubled leading separator, or starts with a path
\* separator.
C11_AbsoluteRejected ==
    (vphase # "built" /\ NotRelative(vin.dest_dir)) =>
        /\ ~vplan.is_valid
        /\ \E i \in 1..Len(vplan.validation_msg) :
              /\ vplan.validation_msg[i][1] = "unsafe_path"
              /\ vplan.validation_msg[i][2] \in {"drive_letter", "unc_path", "traversal", "absolute", "dangerous_prefix"}

C11_Witness ==
    /\ vphase = "validated" /\ platform = "posix"
    /\ vin.dest_dir = <<"C",":","\\","U","s","e","r","s","\\","D","o","c","u","m","e","n","t","s">>
    /\ ~vplan.is_valid
    /\ vplan.validation_msg = << <<"unsafe_path", "drive_letter">> >>

\* the name with every filesystem-illegal character replaced by "_"
IllegalReplaced(n) == [i \in 1..Len(n) |-> IF n[i] \in INVALID_WIN_CHARS THEN "_" ELSE n[i]]

\* nothing is left of the name once the illegal characters are replaced and the
\* leading and trailing whitespace, then the leading and trailing dots, are trimmed
CleansToEmpty(n) == strip(strip(IllegalReplaced(n), Whitespace), {"."}) = <<>>

\* C12: a new_name that is empty after cleaning (made only of dots and spaces,
\* for example) makes the plan invalid, and the plan keeps the cleaned name.
C12_EmptyNameRejected ==
    (vphase = "validated" /\ CleansToEmpty(vin.new_name)) =>
        /\ ~vplan.is_valid
        /\ vplan.new_name = sanitize_filename(vin.new_name)

\* the plan's name is a stretch of the original name with the illegal characters
\* replaced by "_" (what trimming leaves of it)
IsTrimOfReplaced(cleaned, original) ==
    \E a \in 1..(Len(original) + 1) : \E b \in 0..Len(original) :
        cleaned = SubSeq(IllegalReplaced(original), a, b)

\* C13: validate_plan stores in the plan the name with every filesystem-illegal
\* character replaced by "_" (none is left in it), and when that cleanup is the
\* only thing wrong (the cleaned name is not too long and not reserved, the
\* destination is safe) the plan is marked valid.
C13_CleanupIsNotRejection ==
    (vphase = "validated" /\ ~CleansToEmpty(vin.new_name)) =>
        /\ \A i \in 1..Len(vplan.new_name) : vplan.new_name[i] \notin INVALID_WIN_CHARS
        /\ IsTrimOfReplaced(vplan.new_name, vin.new_name)
        /\ ( /\ vin.dest_dir = <<"a","r","c","h","i","v","e">>
             /\ Len(vplan.new_name) <= MaxNameLen
             /\ upper(stem(vplan.new_name)) \notin reserved_names )
           => /\ vplan.is_valid
              /\ vplan.validation_msg = << <<"ok", "">> >>

C13_Witness ==
    /\ vphase = "validated"
    /\ vin.new_name = TestInvalidName
    /\ vplan.new_name = <<"u53D1","u7968","_","_","_","_","_","_","_","_","_",".","p","d","f">>
    /\ vplan.is_valid

-----------------------------------------------------------------------------
(* Properties of node_build_plan (specification SpecRoute) *)

\* node_build_plan has built the plan of a file whose analysis succeeded
Routed == pc = "validate" /\ learned.called

\* C14: node_build_plan picks the destination in strict priority: the path the
\* preference lookup returned is used verbatim whatever the category and the
\* date; otherwise a category of the date-partitioned set gets the date-partition
\* path even if the vendor is valid; otherwise the semantic path is used;
\* routing_source records the tier that fired.
C14_RoutingPriority ==
    Routed =>
        LET a == st.analysis
        IN  IF learned.value # <<>>
            THEN /\ st.plan.dest_dir = learned.value
                 /\ st.routing_source = "memory"
                 /\ st.used_learned_preference
            ELSE IF a.category \in {"invoice", "receipt", "bank_statement"}
            THEN /\ st.plan.dest_dir = build_date_partition_path(a.category, a.extracted_date)
                 /\ st.routing_source = "date_partition"
                 /\ ~st.used_learned_preference
            ELSE /\ st.plan.dest_dir = build_semantic_path(a.category, a.vendor_or_party)
                 /\ st.routing_source = "semantic"
                 /\ ~st.used_learned_preference

C14_Witness ==
    /\ Routed
    /\ st.analysis.category = "invoice" /\ st.analysis.extracted_date = <<"2","0","2","4","-","0","3">>
    /\ learned.value = <<"i","n","v">>
    /\ st.plan.dest_dir = <<"i","n","v">> /\ st.routing_source = "memory"

\* the date-partition tier decided the destination
DatePartitioned == Routed /\ st.routing_source = "date_partition"

IsDigits(d, from, to) == to <= Len(d) /\ \A i \in from..to : d[i] \in DigitSet

DateSeps == {"-", "/", "."}

\* <<year, month>> as the forms YYYY[-/.]MM[-/.]DD, YYYY[-/.]MM, the localized
\* year-month form and the English month-name forms give them, the placeholders
\* when the date has none of these forms
FormsYearMonth(d) ==
    IF /\ Len(d) = 10 /\ IsDigits(d, 1, 4) /\ d[5] \in DateSeps /\ IsDigits(d, 6, 7)
       /\ d[8] \in DateSeps /\ IsDigits(d, 9, 10)
    THEN <<SubSeq(d, 1, 4), SubSeq(d, 6, 7)>>
    ELSE IF Len(d) = 7 /\ IsDigits(d, 1, 4) /\ d[5] \in DateSeps /\ IsDigits(d, 6, 7)
    THEN <<SubSeq(d, 1, 4), SubSeq(d, 6, 7)>>
    ELSE IF Len(d) = 8 /\ IsDigits(d, 1, 4) /\ d[5] = "u5E74" /\ IsDigits(d, 6, 7) /\ d[8] = "u6708"
    THEN <<SubSeq(d, 1, 4), SubSeq(d, 6, 7)>>
    ELSE IF d \in { <<"D","e","c"," ","1","4",","," ","2","0","2","5">>, <<"D","e","c","e","m","b","e","r"," ","2","0","2","5">> }
    THEN << <<"2","0","2","5">>, <<"1","2">> >>
    ELSE <<CN_unknown_year, CN_unknown_month>>

\* C15 as stated: the date-partition path is <local category name>/<year>/<month>
\* with year and month parsed by the forms YYYY[-/.]MM[-/.]DD, YYYY[-/.]MM,
\* localized year-month and English month names, the placeholders when the date
\* is absent or has none of these forms.
C15_DateFormsParsed ==
    DatePartitioned =>
        LET ym == FormsYearMonth(st.analysis.extracted_date)
        IN  st.plan.dest_dir = CAT_CN_MAP(st.analysis.category) \o <<"/">> \o ym[1] \o <<"/">> \o ym[2]

\* the date starts with a year 20YY
StartsWithYear(d) == Len(d) >= 4 /\ d[1] = "2" /\ d[2] = "0" /\ IsDigits(d, 3, 4)

\* C15, amended: the date-partition path is <local category name>/<year>/<month>;
\* when the date starts with a year 20YY, the year is that year and the month is
\* the two digits that follow it, after one optional "-", "." or "/", or "01"
\* when no two digits follow; when the date is absent or does not start with such
\* a year, both are the placeholders.
C15_DatePartitionPath ==
    DatePartitioned =>
        LET d == st.analysis.extracted_date
            k == IF Len(d) >= 5 /\ d[5] \in DateSeps THEN 6 ELSE 5
            year == IF StartsWithYear(d) THEN SubSeq(d, 1, 4) ELSE CN_unknown_year
            month == IF ~StartsWithYear(d) THEN CN_unknown_month
                     ELSE IF IsDigits(d, k, k + 1) THEN SubSeq(d, k, k + 1)
                     ELSE <<"0", "1">>
        IN  st.plan.dest_dir = CAT_CN_MAP(st.analysis.category) \o <<"/">> \o year \o <<"/">> \o month

C15_Witness ==
    /\ DatePartitioned
    /\ st.analysis.category = "invoice"
    /\ st.analysis.extracted_date = <<"2","0","2","4","-","0","3">>
    /\ st.plan.dest_dir = <<"u53D1","u7968","/","2","0","2","4","/","0","3">>

\* the semantic tier decided the destination
SemanticRouted ==
    /\ Routed /\ learned.value = <<>>
    /\ st.analysis.category \notin {"invoice", "receipt", "bank_statement"}

\* the placeholder vendors: empty, unknown, n/a, none, null and the localized ones
PlaceholderVendors ==
    { <<>>, <<"u","n","k","n","o","w","n">>, <<"n","/","a">>, <<"n","o","n","e">>, <<"n","u","l","l">>,
      <<"u65E0">>, <<"u672A","u77E5">> }

\* the vendor with every path-illegal character replaced by "_" and all trailing
\* dots and spaces removed
VendorSegment(v) ==
    rstrip([i \in 1..Len(v) |-> IF v[i] \in {"/", "\\", ":", "*", "?", "\"", "<", ">", "|"} THEN "_" ELSE v[i]],
           {".", " ", "\t"})

\* C16: with no learned preference and a category outside the date-partitioned
\* set, the destination is <local category name>/General when the vendor is
\* absent or, trimmed and lower-cased, a placeholder value; otherwise it is
\* <local category name>/<vendor>, the vendor with every path-illegal character
\* replaced by "_" and all trailing dots and spaces removed (leading whitespace
\* may be removed as well).
C16_SemanticPath ==
    SemanticRouted =>
        LET v == st.analysis.vendor_or_party
            prefix == CAT_CN_MAP(st.analysis.category) \o <<"/">>
            dest == st.plan.dest_dir
        IN  /\ startswith(dest, prefix)
            /\ LET segment == SubSeq(dest, Len(prefix) + 1, Len(dest))
               IN  IF lower(strip(v, Whitespace)) \in PlaceholderVendors
                   THEN segment = <<"G","e","n","e","r","a","l">>
                   ELSE lstrip(segment, Whitespace) = lstrip(VendorSegment(v), Whitespace)

\* the preferences the lookup may use for the file: enabled vendor_folder rows of
\* the file's vendor with a confidence of at least 0.7
Usable ==
    {r \in st.preference_repo :
        /\ r.preference_type = "vendor_folder" /\ r.enabled
        /\ st.analysis.vendor_or_party # <<>>
        /\ r.trigger_vendor = st.analysis.vendor_or_party
        /\ r.confidence >= 70}

\* C17, amended: the lookup returns a stored path only from an enabled
\* vendor_folder preference whose vendor equals the file's and whose confidence is
\* at least 0.7; a preference whose category also equals the file's is taken when
\* there is one, otherwise the preference of that vendor with the highest
\* confidence is applied whatever its category; the lookup returns nothing only
\* when there is no such preference or the query failed.
C17_PreferenceLookup ==
    Routed =>
        LET exact == {r \in Usable : r.trigger_doc_type = st.analysis.category}
        IN  /\ learned.value # <<>> =>
                  \E r \in Usable :
                      /\ r.preference_value = learned.value
                      /\ exact # {} => r \in exact
                      /\ exact = {} => \A q \in Usable : q.confidence <= r.confidence
            /\ (learned.value = <<>> /\ learned.db_ok) => Usable = {}

C17_Witness ==
    /\ Routed
    /\ st.analysis.category = "contract" /\ st.analysis.vendor_or_party = Acme
    /\ \E r \in st.preference_repo : r.trigger_doc_type = "invoice" /\ r.confidence = 90 /\ r.trigger_vendor = Acme
    /\ \E r \in st.preference_repo : r.trigger_doc_type = "contract" /\ r.confidence = 80 /\ r.trigger_vendor = Acme
    /\ learned.value = <<"m","e","m">>

\* C17 as stated: the learned-preference lookup used by routing returns a stored
\* path only from an enabled preference whose vendor and category both equal the
\* file's and whose confidence is at least the floor 0.7: a preference learned for
\* the same vendor under another category is not applied.
C17_PreferenceKeyedByVendorAndCategory ==
    (Routed /\ learned.value # <<>>) =>
        \E r \in st.preference_repo :
            /\ r.preference_type = "vendor_folder" /\ r.enabled
            /\ r.trigger_vendor = st.analysis.vendor_or_party
            /\ r.trigger_doc_type = st.analysis.category
            /\ r.confidence >= 70
            /\ r.preference_value = learned.value

-----------------------------------------------------------------------------
(* Properties of extract_text_preview_enhanced (specification SpecExtract) *)

\* the last call returned a result
Extracted == ex.called /\ ~ex.raised

\* what direct extraction yields for the file
DirectText == text_strip(ex.file.text)

\* the direct text is empty, or shorter than the text expected of one page
NearEmpty == text_len(DirectText) < min_chars_per_page

\* the types the readers know
DirectTypes == {".pdf", ".docx", ".pptx", ".txt", ".md"}

\* the pages should_use_ocr is told of: those of the PDF, one for a document
\* that has no pages
PagesOf(file) == IF file.ext = ".pdf" THEN file.page_count ELSE 1

PdfRead ==
    /\ Extracted /\ ex.file.ext = ".pdf"
    /\ ex.trace.reader = "ok" /\ ex.trace.cache_get # "hit"

\* every optical path the last call tried returned an error, the chosen one first
OpticalPathsFailed ==
    \/ ex.trace.vision = "error" /\ ex.trace.rapidocr \in {"error", "unused"}
    \/ ex.trace.vision = "unused" /\ ex.trace.rapidocr = "error"

\* C19: when optical recognition is warranted for a PDF and the chosen optical
\* path (Vision LLM or RapidOCR) returns an error, the cascade tries the other
\* optical path; when that one also errors or is unavailable, the result is the
\* raw direct-extraction text with method direct_fallback, confidence 0.3 and
\* the error recorded in the result.  (RapidOCR is the other path of the Vision
\* LLM; the Vision LLM counts as unavailable for a document it was not chosen
\* for.)
C19_OpticalFallbackChain ==
    (PdfRead /\ should_use_ocr(DirectText, ex.file.page_count).needs) =>
        /\ (ex.trace.vision = "error" /\ ex.config.enable_rapidocr) => ex.trace.rapidocr # "unused"
        /\ OpticalPathsFailed =>
              /\ ex.result.text = text_prefix(DirectText, default_limit)
              /\ ex.result.method = "direct_fallback"
              /\ ex.result.confidence = fallback_confidence
              /\ ex.result.error # None

\* C20: extract_text_preview_enhanced always returns a completed result and never
\* raises, for every failure of file reading, parsing, optical recognition or of
\* the cache (opening it, reading from it, writing to it); a cache failure never
\* blocks or changes the extraction result.
C20_ExtractionNeverRaises ==
    ex.called =>
        /\ ~ex.raised
        /\ ex.result.method # "unknown"
        /\ ex.trace.cache_set = "raises" =>
              \E o \in extract_text_preview_enhanced(ex.file, ex.config, ex.row, default_limit) :
                  o.trace = [ex.trace EXCEPT !.cache_set = "ok"] /\ o.result = ex.result

\* the last call computed the fingerprint of the file and read the cache
CacheRead ==
    /\ ex.called
    /\ ex.trace.cache_open = "ok" /\ ex.trace.file_hash = "ok"
    /\ ex.trace.cache_get \in {"hit", "miss"}

\* the last call found a row stored under the fingerprint and returned it
HitReturnsStored ==
    (CacheRead /\ ex.row # NoCache) =>
        /\ ~ex.raised /\ ex.trace.cache_get = "hit"
        /\ ex.result.text = ex.row.text
        /\ ex.result.confidence = ex.row.confidence
        /\ ex.result.quality_score = ex.row.quality_score
        /\ ex.result.method = ex.row.method \o "_cached"
        /\ ex.row.method \in {"rapidocr", "vision_llm"}
        /\ ex.result.processing_time_ms = "0"
        /\ cache = ex.row

\* a hit after a hit returns what the hit before returned
RepeatedHitSame ==
    (ex.trace.cache_get = "hit" /\ ex'.trace.cache_get = "hit") => ex'.result = ex.result

\* C21: after an extraction result has been stored under a fingerprint, a later
\* call with the same character limit on a file with the same fingerprint
\* returns the stored text, confidence and quality score unchanged, with method
\* equal to the stored method plus the cached tag and processing time 0;
\* repeated hits return the same result and never stack the tag.
C21_CacheRoundTrip == []HitReturnsStored /\ [][RepeatedHitSame]_vars

C21_Witness ==
    /\ ex.n = MaxExtractCalls /\ ex.trace.cache_get = "hit"
    /\ ex.row.text = << <<"a", default_limit>> >> /\ ex.row.method = "vision_llm"
    /\ ex.result.method = "vision_llm_cached"
    /\ ex.result.text = << <<"a", default_limit>> >>

\* the methods that recognise the text optically
OpticalMethods == {"rapidocr", "vision_llm"}

\* a result of an optical method with text and a quality score of 30 or more
Cacheable(r) ==
    /\ r.method \in OpticalMethods
    /\ r.text # <<>>
    /\ r.quality_score >= min_cached_quality

\* the row OCRCache.set writes for a result
RowOf(r) ==
    [text |-> r.text, method |-> r.method, confidence |-> r.confidence,
     quality_score |-> r.quality_score]

\* C22: after any sequence of extractions, an entry is in the OCR cache exactly
\* for the results that were produced by an optical method (rapidocr or
\* vision_llm) with non-empty text and quality score >= 30: every such result is
\* written, and direct, direct_fallback, failed and cached-tagged results are
\* never written.  (A result is written under the fingerprint of its file, so
\* the call has computed it; a write the database refuses leaves the cache as
\* it was.)
C22_CacheHoldsOpticalResults ==
    /\ cache # NoCache => Cacheable(cache)
    /\ ex.called =>
          /\ ex.trace.cache_set # "unused" <=>
                (~ex.raised /\ Cacheable(ex.result) /\ ex.trace.file_hash = "ok")
          /\ ex.trace.cache_set = "ok" => cache = RowOf(ex.result)
          /\ ex.trace.cache_set # "ok" => cache = ex.row

C22_Witness ==
    /\ Extracted /\ ex.file.ext = ".png"
    /\ ex.result.method = "rapidocr" /\ ex.result.quality_score = 60
    /\ ex.trace.cache_set = "ok" /\ ex.row = NoCache
    /\ cache = RowOf(ex.result)

\* a PDF whose optical result is too poor to keep: nothing is written
C22_WitnessNotWritten ==
    /\ Extracted /\ ex.file.ext = ".pdf"
    /\ ex.result.method = "vision_llm" /\ ex.result.text = << <<"#", 40>> >>
    /\ ex.result.quality_score < min_cached_quality
    /\ ex.trace.cache_set = "unused" /\ cache = NoCache

-----------------------------------------------------------------------------
(* Properties of calculate_quality_score (specification SpecQuality) *)

\* the length the score is computed from: that of the text without the blanks around it
ScoredLength(text) == text_len(text_strip(text))

\* the characters of the text that are neither alphanumeric, blank nor listed punctuation
GarbageCount(text) == ScoredLength(text) - count_chars(text_strip(text), NormalClasses)

\* text has the length of other and at least its ratio of garbage characters
MoreGarbage(text, other) ==
    /\ ScoredLength(text) = ScoredLength(other)
    /\ GarbageCount(text) * ScoredLength(other) >= GarbageCount(other) * ScoredLength(text)

\* C23: calculate_quality_score returns a score in [0,100] for every text and
\* confidence; with text length and confidence held fixed the score never
\* increases when the garbage-character ratio increases; needs_review is true
\* exactly when the score is below 60.
C23_ScoreBoundedMonotone ==
    qs.called =>
        /\ qs.quality_score \in 0..100
        /\ qs.needs_review <=> qs.quality_score < 60
        /\ \A text \in QualityTexts :
              MoreGarbage(text, qs.text) =>
                  calculate_quality_score(text, qs.confidence).quality_score <= qs.quality_score

\* a long text of which 31% is garbage scores less than one of which 11% is
C23_Witness ==
    /\ qs.called /\ qs.text = << <<"a", 89>>, <<"#", 11>> >> /\ qs.confidence = 95
    /\ qs.quality_score = 90 /\ ~qs.needs_review
    /\ calculate_quality_score(<< <<"a", 69>>, <<"#", 31>> >>, 95).quality_score = 70
    /\ MoreGarbage(<< <<"a", 69>>, <<"#", 31>> >>, qs.text)

\* the formula as stated: 100, less 30 or 15 for a short text, less 50, 30 or 10
\* for a garbage ratio above 50%, 30% or 10%, less 20 or 10 for a confidence
\* below 0.5 or 0.7, clamped to [0,100]
StatedScore(text, confidence) ==
    LET length == ScoredLength(text)
        garbage == GarbageCount(text)
        for_length == IF length < 50 THEN 30 ELSE IF length < 100 THEN 15 ELSE 0
        for_garbage == IF 10 * garbage > 5 * length THEN 50
                       ELSE IF 10 * garbage > 3 * length THEN 30
                       ELSE IF 10 * garbage > length THEN 10
                       ELSE 0
        for_confidence == IF confidence < 50 THEN 20 ELSE IF confidence < 70 THEN 10 ELSE 0
        score == 100 - for_length - for_garbage - for_confidence
    IN  IF score < 0 THEN 0 ELSE IF score > 100 THEN 100 ELSE score

\* C24: for every text (the empty text too) and every confidence in [0,1],
\* calculate_quality_score equals the stated formula: 100, minus 30 if the length
\* is below 50 characters (minus 15 if below 100), minus 50, 30 or 10 when the
\* garbage ratio exceeds 50%, 30% or 10%, minus 20 if the confidence is below 0.5
\* (minus 10 if below 0.7), clamped to [0,100].
C24_ScoreIsStatedFormula ==
    qs.called => qs.quality_score = StatedScore(qs.text, qs.confidence)

\* the formula is met away from the empty text, a confidence of 0 and a garbage
\* ratio of exactly 30%
FormulaMetElsewhere ==
    (/\ qs.called /\ ScoredLength(qs.text) > 0 /\ qs.confidence > 0
     /\ 10 * GarbageCount(qs.text) # 3 * ScoredLength(qs.text)) =>
        qs.quality_score = StatedScore(qs.text, qs.confidence)

-----------------------------------------------------------------------------
(* Properties of the watcher (specifications SpecWatch and SpecWatchFair) *)

\* the i-th path put has been taken out of the queue and the worker is done with it
Handled(i) == i <= puts /\ fate[i] \in {"dropped", "processed", "failed"}

\* the worker is done with every path put so far
AllHandled == \A i \in 1..puts : Handled(i)

\* process_file has raised for some path
SomeFailure == \E j \in 1..puts : fate[j] = "failed"

\* C25: if processing one dequeued file raises any exception, the watcher's
\* worker thread logs it and keeps running: every path enqueued afterwards is
\* still dequeued and handled as long as the stop event is not set.  (From a
\* failure on, and from any later moment, the worker comes to have handled
\* every path put until then, unless the stop event is set first.)
C25_WorkerSurvivesFailure ==
    /\ [](\A w \in Workers : worker[w].pc \in {"loop", "get", "stability", "process", "stopped", "killed"})
    /\ SomeFailure ~> (AllHandled \/ stop_event)

C25_Witness ==
    /\ puts = 2 /\ fate = <<"failed", "processed">>
    /\ ~stop_event /\ worker["worker"].pc = "loop"

\* the worker threads inside process_file
InPipeline == {w \in Workers : worker[w].pc = "process"}

\* C26: under every interleaving of filesystem events (producer) and worker
\* steps (consumer), at most one file is inside the pipeline (process_file) at
\* any time, and files are taken into the pipeline in the order in which their
\* events were enqueued.
C26_OneFileAtATimeInOrder ==
    /\ Cardinality(InPipeline) <= 1
    /\ \A i, j \in DOMAIN handed : i < j => handed[i] < handed[j]

C26_Witness ==
    /\ handed = <<1, 2>> /\ fate = <<"processed", "in_pipeline">>
    /\ InPipeline = {"worker"} /\ worker["worker"].file_path = 2

\* C27: wait_for_file_stability returns true only after min_stable_count (3)
\* consecutive polls have read the same non-zero size, with no poll in between
\* that read a different size, a zero size or failed; so the worker hands a
\* file to the pipeline only after such an unbroken run of equal readings.
C27_StableAfterUnbrokenRun ==
    \A w \in Workers :
        worker[w].wait.returned = "stable" => worker[w].wait.run >= 3

\* the worker w has dropped its item: the wait returned False
Dropped(w) == worker[w].wait.returned \in {"gone", "not_file", "timeout"}

\* C28: wait_for_file_stability always terminates: it returns false when the
\* file disappears, is not a regular file, or has not become stable before the
\* timeout (it keeps growing or stays empty); the worker then drops that item
\* without invoking the pipeline or re-enqueueing it, and goes on to the next
\* queue item.
C28_WaitTerminatesAndDrops ==
    /\ \A w \in Workers : (worker[w].pc = "stability") ~> (worker[w].pc # "stability")
    /\ [](\A w \in Workers :
            Dropped(w) =>
                /\ worker[w].pc \in {"loop", "get", "stopped", "killed"}
                /\ fate[worker[w].file_path] = "dropped"
                /\ \A k \in DOMAIN handed : handed[k] # worker[w].file_path
                /\ \A k \in DOMAIN file_queue.items : file_queue.items[k] # worker[w].file_path)

\* the first path was dropped, and the worker went on to handle the second
C28_Witness ==
    /\ puts = 2 /\ fate[1] = "dropped" /\ Handled(2)
    /\ worker["worker"].file_path = 2

\* the wait of a path has just run into the timeout
C28_WitnessTimeout ==
    /\ worker["worker"].wait.returned = "timeout"
    /\ worker["worker"].pc = "loop" /\ fate[worker["worker"].file_path] = "dropped"

\* C29: after the external stop signal, the worker finishes the item it is
\* currently processing before the process exits (when main has returned, no
\* worker was cut off inside process_file), and it starts no new item once it
\* has observed the stop event (a worker leaves its loop only on the stop event).
C29_DrainsBeforeExit ==
    /\ main = "exited" =>
          \A w \in Workers : worker[w].killed_in # "process"
    /\ \A w \in Workers : worker[w].pc = "stopped" => stop_event

-----------------------------------------------------------------------------
(* Properties of the batch run (specification SpecBatch) *)

\* the batch run is over: main has returned or an exception has left it
BatchEnded == batch.pc \in {"done", "raised"}

\* C30: no exception raised while processing one file propagates out of that
\* file's handling: whatever fails in the pipeline of one file, the batch run
\* ends with every file handed to process_file and with its log written.
C30_FailureStaysInItsFile ==
    BatchEnded => batch.i = batch.files /\ batch.log.written

\* a run in which no call raises ends with one log line per file
LogHoldsEveryRecord ==
    batch.pc = "done" =>
        /\ batch.log.lines = batch.records
        /\ Len(batch.records) = batch.files

-----------------------------------------------------------------------------
(* Properties of the workflow: the pending artifact, the audit record and the
   end-to-end scenario (specification Spec) *)

\* the gate returns in this step
GateStep == pc = "human_review" /\ pc' \in {"apply", "skip"}

\* what the gate's step does to the pending directory: a pending decision adds
\* one artifact with status 'pending' at the path kept as pending_file and
\* leaves the others alone; any other decision writes nothing and keeps no path
GateWritesWhenPending ==
    GateStep =>
        IF Get(st', "decision", "none") = "pending"
        THEN LET path == Get(st', "pending_file", NoPath)
             IN  /\ path # NoPath /\ path \notin DOMAIN pendingDir
                 /\ DOMAIN pendingDir' = DOMAIN pendingDir \cup {path}
                 /\ pendingDir'[path].status = "pending"
                 /\ pendingDir'[path].original_file = st.file_path
                 /\ \A q \in DOMAIN pendingDir : pendingDir'[q] = pendingDir[q]
        ELSE /\ Get(st', "decision", "none") \in {"approved", "auto_reject_invalid"}
             /\ pendingDir' = pendingDir
             /\ ~Has(st', "pending_file")

\* only the gate writes into the pending directory
OnlyGateWrites == pendingDir' # pendingDir => pc = "human_review"

\* the audit record of a run names the artifact of a pending decision and no
\* artifact for any other decision
RecordNamesArtifact ==
    pc = "END" =>
        IF st.record.decision = "pending"
        THEN /\ st.record.pending_file \in DOMAIN pendingDir
             /\ pendingDir[st.record.pending_file].status = "pending"
             /\ pendingDir[st.record.pending_file].original_file = st.file_path
        ELSE Get(st.record, "pending_file", NoPath) = NoPath

\* C31: a pending artifact is written exactly when the gate's decision is
\* pending: a pending decision leaves one artifact with status 'pending' whose
\* path the audit record keeps as pending_file; the decisions approved and
\* auto_reject_invalid write no artifact and record no pending_file.
C31_ArtifactIffPending ==
    /\ []RecordNamesArtifact
    /\ [][GateWritesWhenPending /\ OnlyGateWrites]_vars

\* a run has ended with a pending decision and its artifact in the directory
C31_Witness ==
    /\ pc = "END" /\ st.record.decision = "pending"
    /\ st.record.pending_file \in DOMAIN pendingDir

\* a run has ended approved with nothing written
C31_WitnessNoArtifact ==
    pc = "END" /\ pendingDir = NoPending /\ st.record.decision = "approved"

\* process_file returns in this step
ReturnStep == pc = "END" /\ pc' = "idle"

\* every return of process_file hands over the one record of its run, and
\* records come from nowhere else
OneRecordPerRun ==
    /\ ReturnStep => Has(st, "record") /\ records' = Append(records, st.record)
    /\ records' # records => ReturnStep

\* the apply node always ends the run: a failed move is a result, not an exception
ApplyEndsTheRun == pc = "apply" /\ pc' # pc => pc' = "END" /\ Has(st', "record")

\* the record of an approved run that was not a dry run tells what the move did
RecordTellsTheMove ==
    pc = "END" /\ st.record.approved /\ ~st.record.dry_run =>
        /\ Has(st, "move_result")
        /\ IF st.move_result.status = "success"
           THEN /\ st.record.execution_status = "success"
                /\ st.record.moved_to = st.move_result.dst
                /\ is_file(fs, st.record.moved_to)
           ELSE /\ st.record.execution_status = "failed"
                /\ st.record.moved_to = NoPath

\* C32: every completed process_file run returns exactly one audit record; for
\* an approved plan with dry_run false its execution_status is 'success' with
\* moved_to the final destination the move reports when the move succeeded and
\* 'failed' with moved_to empty when it failed, and the failed move does not
\* raise out of process_file.
C32_OneRecordTellsTheMove ==
    /\ []RecordTellsTheMove
    /\ [][OneRecordPerRun /\ ApplyEndsTheRun]_vars

\* a run has returned the record of a failed move
C32_Witness ==
    /\ pc = "idle" /\ Len(records) = 1
    /\ records[1].approved /\ ~records[1].dry_run
    /\ records[1].execution_status = "failed" /\ records[1].moved_to = NoPath

\* a run has ended with a move that took a free name beside an existing file
C32_WitnessMoved ==
    /\ pc = "END" /\ st.record.approved /\ ~st.record.dry_run
    /\ st.record.execution_status = "success"
    /\ st.move_result.conflict_resolved

\* the order of the nodes on the approved path of the compiled graph
NextNode(node) ==
    CASE node = "extract_preview" -> "llm_analyze"
      [] node = "llm_analyze" -> "build_plan"
      [] node = "build_plan" -> "validate"
      [] node = "validate" -> "human_review"
      [] node = "human_review" -> "apply"
      [] node = "apply" -> "END"
      [] OTHER -> "idle"

\* the run is, as far as it has got, the end-to-end scenario: a plain-text file,
\* auto_approve set, not a dry run, an extraction of high quality, the category
\* 'default' and no vendor
InScenario(state) ==
    /\ state # NoState
    /\ suffix(name(state.file_path)) = <<".","t","x","t">>
    /\ state.auto_approve /\ ~state.dry_run
    /\ ~Has(state, "error")
    /\ Has(state, "extraction_metadata") => ~state.extraction_metadata.needs_review
    /\ Has(state, "analysis") =>
          state.analysis.category = "default" /\ state.analysis.vendor_or_party = <<>>

\* the scenario goes through the nodes in their order
ScenarioOrder ==
    pc # "idle" /\ pc' # pc /\ InScenario(st) /\ (pc' = "idle" \/ InScenario(st')) =>
        pc' = NextNode(pc)

\* the folder of the scenario: <archive>/其他/General
GeneralFolder == archive_root \o << CN_default, <<"G","e","n","e","r","a","l">> >>

\* what safe_move_file reports when a call to the file system failed under it
IOErrors == {"unknown_error", "mkdir_failed", "move_failed"}

\* the scenario, run on a file that is in the inbox, ends approved; the file is
\* moved under <archive>/其他/General, the move is recorded as a success with
\* moved_to set (unless the file system failed under the move)
ScenarioEnd ==
    pc = "END" /\ InScenario(st) /\ is_file(fs0, st.file_path) =>
        /\ st.record.decision = "approved" /\ st.record.approved
        /\ Has(st, "move_result")
        /\ st.move_result.status = "success" \/ st.move_result.error \in IOErrors
        /\ st.move_result.status = "success" =>
              /\ st.record.execution_status = "success"
              /\ st.record.moved_to # NoPath
              /\ parent(st.record.moved_to) = GeneralFolder
              /\ is_file(fs, st.record.moved_to)
              /\ ~exists(fs, st.file_path)
              /\ fs[st.record.moved_to] = fs0[st.file_path]

\* C33: a plain-text file classified as 'default' with no vendor, processed
\* with auto_approve true, dry_run false and an extraction that needs no
\* review, passes through extract, classify, route, validate, approve and apply
\* in that order and ends with decision approved, the file moved under
\* <archive>/其他/General, execution_status 'success' and moved_to set.
C33_DefaultTextFileArchived ==
    /\ []ScenarioEnd
    /\ [][ScenarioOrder]_vars

\* the scenario has ended with the file in the General folder
C33_Witness ==
    /\ pc = "END" /\ InScenario(st)
    /\ st.record.execution_status = "success"
    /\ parent(st.record.moved_to) = GeneralFolder

-----------------------------------------------------------------------------
(* More properties of validate_plan (specification SpecValidate) *)

\* what sanitize_filename trims: whitespace and the dot
Trimmed == Whitespace \cup {"."}

\* C34: the filename validate_plan leaves in the plan never starts or ends with
\* whitespace or a dot, whatever the input name; equivalently cleaning a cleaned
\* name changes nothing (sanitize_filename is idempotent, and validating the
\* plan again gives the same new_name and is_valid).
C34_CleanNameStaysClean ==
    vphase \in {"validated", "validated_twice"} =>
        /\ vplan.new_name # <<>>
        /\ vplan.new_name[1] \notin Trimmed
        /\ vplan.new_name[Len(vplan.new_name)] \notin Trimmed
        /\ sanitize_filename(vplan.new_name) = vplan.new_name
        /\ validate_plan(vplan, platform).is_valid = vplan.is_valid

\* the cleaned name is never empty, holds no illegal character and neither
\* starts nor ends with a dot
CleanNameHasNoIllegalChar ==
    vphase \in {"validated", "validated_twice"} =>
        /\ vplan.new_name # <<>>
        /\ \A i \in 1..Len(vplan.new_name) : vplan.new_name[i] \notin INVALID_WIN_CHARS
        /\ vplan.new_name[1] # "."
        /\ vplan.new_name[Len(vplan.new_name)] # "."

-----------------------------------------------------------------------------
(* Properties of should_use_ocr (specification SpecOcr) *)

\* the text of test_should_use_ocr_whitespace_heavy: " " * 900 + "text" * 25
WhitespaceTestText == << <<" ", 900>>, <<"a", 100>> >>

\* the call was made on the test's case
OnTestCase == oc.called /\ oc.extracted_text = WhitespaceTestText /\ oc.page_count = 1

\* C35: should_use_ocr returns true, giving the whitespace reason, for a text in
\* which whitespace makes up 90% of all characters (the test's case: 900 spaces
\* followed by 100 letters on one page).
C35_NinetyPercentTriggers ==
    OnTestCase => oc.needs /\ oc.reason = "whitespace"

\* neither the empty-text nor the density condition holds for the call
PastDensity ==
    /\ text_len(text_strip(oc.extracted_text)) > 0
    /\ oc.page_count > 0 =>
          text_len(text_strip(oc.extracted_text)) >= min_chars_per_page * oc.page_count

\* what the function does: it gives the whitespace reason exactly when, past
\* the empty-text and density conditions, whitespace makes up more than 90% of
\* all characters of the text; at exactly 90% (the test's case) the whitespace
\* condition does not hold and the text is reported normal
AboveNinetyPercentTriggers ==
    oc.called =>
        /\ PastDensity =>
              (oc.reason = "whitespace" <=>
                  10 * count_chars(oc.extracted_text, {" "}) > 9 * text_len(oc.extracted_text))
        /\ oc.reason = "whitespace" => oc.needs /\ PastDensity
        /\ OnTestCase => ~oc.needs /\ oc.reason = "normal"

\* the call was made on the test's text with one more space
OneMoreSpaceTriggers ==
    /\ oc.called /\ oc.extracted_text = << <<" ", 901>>, <<"a", 100>> >> /\ oc.page_count = 1
    /\ oc.needs /\ oc.reason = "whitespace"

-----------------------------------------------------------------------------
(* More properties of extract_text_preview_enhanced (specification SpecExtract) *)

\* the methods the docstring of extract_text_preview_enhanced lists
StatedMethods == {"direct", "rapidocr", "vision_llm", "direct_fallback"}

\* C36: the method field of every result of extract_text_preview_enhanced is
\* one of direct, rapidocr, vision_llm, direct_fallback, or one of these with
\* the cached tag, for every file type and on every failure path.
C36_MethodIsOneOfTheStated ==
    ex.called /\ ~ex.raised =>
        ex.result.method \in StatedMethods \cup { m \o "_cached" : m \in StatedMethods }

\* away from images every result has one of the stated methods
MethodStatedAwayFromImages ==
    ex.called /\ ~ex.raised /\ ex.file.ext \notin image_types =>
        ex.result.method \in StatedMethods \cup { m \o "_cached" : m \in StatedMethods }

\* C38: when enable_rapidocr is false, extract_text_preview_enhanced never
\* invokes RapidOCR on any path, the fallback after a Vision LLM failure
\* included; a PDF that needs recognition and has no enabled optical method
\* left gets its direct text with method direct_fallback.
C38_DisabledRapidOcrNeverRuns ==
    ex.called /\ ~ex.config.enable_rapidocr =>
        /\ ex.trace.rapidocr = "unused"
        /\ ~ex.raised => ex.result.method \notin {"rapidocr", "rapidocr_failed"}

\* with the Vision LLM out of the way a disabled RapidOCR is never invoked, and
\* a PDF that needs recognition gets its direct text with method direct_fallback
DisabledRapidOcrWithoutVision ==
    ex.called /\ ~ex.config.enable_rapidocr /\ ex.trace.vision = "unused" =>
        /\ ex.trace.rapidocr = "unused"
        /\ (/\ ~ex.raised /\ ex.file.ext = ".pdf" /\ ex.trace.reader = "ok"
            /\ ex.trace.cache_get # "hit"
            /\ should_use_ocr(ex.file.text, ex.file.page_count).needs) =>
              /\ ex.result.method = "direct_fallback"
              /\ ex.result.text = text_prefix(text_strip(ex.file.text), default_limit)

-----------------------------------------------------------------------------
(* Properties of the approval (specification SpecResolve) *)

\* every state the workflow hands to the gate is one the approval model starts from
GateStatesCovered == pc = "human_review" => st \in StatesAtGate(platform)

\* a step that is one approve_file call
ApproveStep == ui'.n = ui.n + 1

\* the call of this step moved the source and removed the artifact
MovedAndRemoved ==
    /\ exists(fs, ui'.src) /\ ~exists(fs', ui'.src)
    /\ ui'.final_dst # NoPath /\ is_file(fs', ui'.final_dst)
    /\ fs'[Resolve(ui'.final_dst)] = fs[Resolve(ui'.src)]
    /\ ui'.json_file \notin DOMAIN pendingDir'

\* the call of this step left the source where it was and the artifact pending
SourceAndArtifactKept ==
    /\ exists(fs, ui'.src) => exists(fs', ui'.src) /\ fs'[Resolve(ui'.src)] = fs[Resolve(ui'.src)]
    /\ ui'.json_file \in DOMAIN pendingDir'

\* C37: resolving a pending artifact with approve_file is all-or-nothing: it
\* returns success exactly when the source file has been moved and the artifact
\* removed from the pending directory; whenever it returns failure the source
\* file is still at its original path and the artifact is still pending.
C37_ApproveAllOrNothing ==
    [][ApproveStep => /\ ui'.ok <=> MovedAndRemoved
                      /\ ~ui'.ok => SourceAndArtifactKept]_vars

\* what holds: success is returned only with the file moved and the artifact
\* removed, and a failure of the move itself leaves source and artifact in place
ApproveSuccessIsComplete ==
    [][ApproveStep => /\ ui'.ok => MovedAndRemoved
                      /\ ~ui'.ok /\ ui'.status # "success" => SourceAndArtifactKept]_vars

\* a move planned as dest_dir and new_name ended at final_dst: dest_dir is
\* relative and has no '..' segment, new_name has no separator, the file is in
\* archive_root / dest_dir under new_name or the free name resolve_collision
\* chose for it, and that path is inside the archive root
PlacedByPlan(dest_dir, new_name, final_dst, pf) ==
    LET dir == archive_root \o Parts(dest_dir, pf)
        planned == Append(dir, new_name)
    IN  /\ ~HasRoot(dest_dir, pf) /\ ~is_absolute(dest_dir, pf)
        /\ \A i \in 1..Len(Parts(dest_dir, pf)) : Parts(dest_dir, pf)[i] # <<".", ".">>
        /\ \A i \in 1..Len(new_name) : new_name[i] \notin PathSeps(pf)
        /\ PathJoin(PathJoin(archive_root, dest_dir, pf), new_name, pf) = planned
        /\ \/ final_dst = planned
           \/ \E i \in 1..attempt_bound : final_dst = candidate(planned, i)
        /\ startswith(Resolve(final_dst), archive_root)
        /\ Len(Resolve(final_dst)) > Len(archive_root)

\* the run moved its file
PipelineMoved == st # NoState /\ Has(st, "move_result")
                    /\ st.move_result.status = "success"

\* the last approval moved its file
ApprovalMoved == ui.called /\ ui.status = "success"

\* C39: every move of the pipeline, and every move made by approving an artifact
\* the pipeline wrote, puts the file at archive_root/dest_dir/new_name, with
\* dest_dir relative and free of '..' segments and new_name free of separators,
\* so the final path is inside the archive root; also when dest_dir was taken
\* verbatim from a learned preference.
C39_MovesStayInArchive ==
    /\ PipelineMoved =>
          /\ PlacedByPlan(st.plan.dest_dir, st.plan.new_name, st.move_result.dst, platform)
          /\ is_file(fs, st.move_result.dst)
    /\ ApprovalMoved =>
          /\ PlacedByPlan(ui.item.dest_dir, ui.item.new_name, ui.final_dst, platform)
          /\ is_file(fs, ui.final_dst)

\* a learned folder was the destination of a pipeline move
C39_Witness ==
    /\ PipelineMoved /\ Get(st, "used_learned_preference", FALSE)
    /\ st.plan.dest_dir \in LearnedFolders

\* a pending artifact with a learned folder was approved and the file moved
C39_WitnessApproved ==
    /\ ApprovalMoved /\ ui.ok /\ ui.item.dest_dir \in LearnedFolders

-----------------------------------------------------------------------------
(* Properties of the watched inbox (specification SpecInbox) *)

\* the pending artifacts that name file_path as their source
ArtifactsOf(file_path) == { q \in DOMAIN pendingDir : pendingDir[q].original_file = file_path }

\* C40: after any sequence of watcher events and pipeline runs at most one
\* pending artifact exists for a source file: a file still in the inbox that
\* has a pending artifact gets no second one when another event enqueues it or
\* when it is processed again.
C40_OnePendingArtifactPerFile ==
    \A file_path \in InboxFiles : Cardinality(ArtifactsOf(file_path)) <= 1

\* what holds: one run writes at most one artifact, for the file it runs on,
\* and that file is in the inbox when the artifact is written
OneArtifactPerRun ==
    [][pendingDir' # pendingDir =>
          /\ pc = "human_review" /\ is_file(fs, st.file_path)
          /\ \E q \in DOMAIN pendingDir' \ DOMAIN pendingDir :
                /\ DOMAIN pendingDir' = DOMAIN pendingDir \cup {q}
                /\ pendingDir'[q].original_file = st.file_path
                /\ \A p \in DOMAIN pendingDir : pendingDir'[p] = pendingDir[p]]_vars

====
